---- MODULE Spec2Model ----
(***************************************************************************)
(* State-machine model of the SoundCloud batch pipeline.                   *)
(*                                                                         *)
(*   Spec     the two-pass run controller, pipeline_run.main, with the     *)
(*            per-artist collector inlined as the code has it: every       *)
(*            upstream request goes through sc_get_with_retry.             *)
(*   SpecGet  one HTTP client call after the other, sc_get_with_retry,     *)
(*            with the requests sent and the backoff sleeps recorded.      *)
(*   SpecPaged  one sc_paged_get call after the other, page by page, with  *)
(*            the items of every page kept as the upstream sent them.      *)
(*   SpecBatch  one sc_hydrate_tracks call after the other, chunk by       *)
(*            chunk, with the records of every response kept.              *)
(*   SpecSafe  one sc_hydrate_tracks_safe call after the other, one        *)
(*            sc_hydrate_tracks call per step, records with their four     *)
(*            metrics.                                                     *)
(*   SpecPure  the side-effect-free pieces (the profile merge of main, the *)
(*            artist-list normalisation, compose_release_date,             *)
(*            extract_cover_sig, the album join), each applied to inputs   *)
(*            drawn from bounded sets.                                     *)
(*   SpecRefetch  the profile step of one artist over its two attempts,    *)
(*            with the bodies of both profile fetches.                     *)
(*   SpecChunks  the chunking of sc_hydrate_tracks over lists longer than  *)
(*            BATCH_SIZE, the identifiers written as their positions.      *)
(*   SpecSingle  run_pipeline.main, the script with one pass.              *)
(*                                                                         *)
(* Rows of the output lists are projected to the artist they belong to     *)
(* (and, for Error Records, the step tag and the HTTP status).  Listed     *)
(* tracks are named 1, 2, ... in listing order.                            *)
(***************************************************************************)
EXTENDS FiniteSets, Integers, Sequences, TLC

\* ---------------------------------------------------------------- bounds
NumArtists   == 2      \* longest artist list loaded
MaxTracks    == 2      \* most tracks an artist's listing holds
MaxPlaylists == 1      \* most playlists an artist's listing holds
MaxItems     == 3      \* most items the pages of one paginated fetch hold
MaxCells     == 3      \* most cells the identifier column of the artist list holds
MaxUrlLen    == 5      \* most pieces an artwork URL is made of
MaxAlbums    == 2      \* most albums joined, and most track entries of an album
MaxIds       == 120    \* longest identifier list whose chunking is followed

\* ------------------------------------------------------ program constants
BATCH_SIZE   == 50
RETRY_STATUS == {429, 500, 502, 503, 504}
max_retries  == 4
max_rounds   == 3
None         == 0      \* Python's None where the other values are numbers

\* --------------------------------------------------------------- upstream
\* What session.get can produce: a response with a status and an optional
\* Retry-After header, a connection fault (ConnectionError,
\* ChunkedEncodingError) or another requests exception (a read timeout).
GetStatuses   == {200, 404, 429, 503}
RetryAfters   == {"none", "7", "soon"}
GetResponses  == [kind : {"http"}, status : GetStatuses, retry_after : RetryAfters]
                   \cup [kind : {"conn", "timeout"}, status : {None}, retry_after : {"none"}]
\* The responses the controller's runs are explored with.
Responses     == {r \in GetResponses :
                     r.retry_after = "none" /\ r.status \in {None, 200, 404, 503}}

VARIABLES
  \* pipeline_run.main
  pc, artists, idx, r_idx, step,
  track_rows, album_rows, artist_rows, error_rows,
  tracks_total, albums_total, success_urns, retry_candidates,
  \* locals of one collection attempt
  followers, track_count_total, next_url, page_out, urns,
  by_urn, round_idx, req, batch_i, tracks_h, albums,
  \* sc_get_with_retry
  attempt,
  \* end of run
  meta, writes, drive_link, notified,
  \* history of the run: the attempts begun, and how each artist's attempt
  \* ended in each pass (a first-pass failure only as "deferred")
  attempts, outcome,
  \* whether the latest upstream fetch of the run gave a JSON body
  last_get,
  \* the HTTP client call in progress: which file's client it is, where the
  \* call stands, the requests sent, what session.get produced for each, the
  \* seconds slept, and the exception raised
  variant, g_pc, sent, resps, slept, raised,
  \* one sc_paged_get call: where it stands, next_url, out, and for the
  \* record the non-empty collections received and the last next_href
  pg_pc, pg_url, pg_out, pg_pages, pg_last,
  \* one sc_hydrate_tracks call: where it stands, urns, the offset i, out,
  \* and for the record the chunks requested and the records received in
  \* arrays
  hb_pc, hb_urns, hb_i, hb_out, hb_reqs, hb_items,
  \* one sc_hydrate_tracks_safe call: where it stands, urns, by_urn,
  \* round_idx, the list returned, and for the record the number of
  \* sc_hydrate_tracks calls made, the identifiers of the last one and
  \* whether it raised
  hs_pc, hs_urns, hs_by, hs_round, hs_ret, hs_calls, hs_req, hs_failed,
  \* the records the latest bulk lookup of the repair loop returned
  hs_resp,
  \* the side-effect-free piece applied last, its input and its result
  u_op, u_in, u_out,
  \* the profile step of one artist: program point, pass, the three profile
  \* locals, and the profile fetches made in each pass
  rf_pc, rf_pass, rf_user, rf_fetches,
  \* the chunking of one hydrate call: program point, len(urns), the loop
  \* index, and the slices requested, each as <<first, last>> position
  ck_pc, ck_total, ck_i, ck_reqs,
  \* run_pipeline.main: program point, the artist list, the loop index, the
  \* step of the current attempt, the length of its track listing, the
  \* error rows, the three counters, meta, and the artists attempted so far
  sp_pc, sp_artists, sp_idx, sp_step, sp_urns, sp_errors,
  sp_ok, sp_fail, sp_tracks_total, sp_meta, sp_tried

mainVars  == <<pc, artists, idx, r_idx, step>>
outVars   == <<track_rows, album_rows, artist_rows, error_rows,
               tracks_total, albums_total, success_urns, retry_candidates>>
userVars  == <<followers, track_count_total>>
pageVars  == <<next_url, page_out>>
hydVars   == <<by_urn, round_idx, req, batch_i>>
locVars   == <<userVars, pageVars, urns, hydVars, tracks_h, albums>>
endVars   == <<meta, writes, drive_link, notified>>
histVars  == <<attempts, outcome>>
getVars   == <<variant, g_pc, sent, resps, slept, raised>>
pagVars   == <<pg_pc, pg_url, pg_out, pg_pages, pg_last>>
batVars   == <<hb_pc, hb_urns, hb_i, hb_out, hb_reqs, hb_items>>
safeVars  == <<hs_pc, hs_urns, hs_by, hs_round, hs_ret, hs_calls, hs_req, hs_failed,
               hs_resp>>
pureVars  == <<u_op, u_in, u_out>>
rfVars    == <<rf_pc, rf_pass, rf_user, rf_fetches>>
ckVars    == <<ck_pc, ck_total, ck_i, ck_reqs>>
spVars    == <<sp_pc, sp_artists, sp_idx, sp_step, sp_urns, sp_errors,
               sp_ok, sp_fail, sp_tracks_total, sp_meta, sp_tried>>
unitVars  == <<getVars, pagVars, batVars, safeVars, pureVars, rfVars, ckVars,
               spVars>>
vars      == <<mainVars, outVars, locVars, attempt, endVars, histVars, last_get,
               unitVars>>

\* ------------------------------------------------------------ HTTP client
\* raise_for_status: HTTPError for 400..599.
raise_for_status(resp) ==
  IF resp.status >= 400 /\ resp.status < 600 THEN "HTTPError" ELSE "return"

\* Mutant: the budget test is off by one.
sc_get_with_retry_OffByOne(att, resp) ==
  IF resp.kind = "conn"
    THEN IF att <= max_retries THEN "retry" ELSE "Exception"
  ELSE IF resp.kind = "timeout"
    THEN "Exception"
  ELSE IF resp.status \in RETRY_STATUS /\ att <= max_retries
    THEN "retry"
  ELSE raise_for_status(resp)

\* Mutant: every error status is retried.
sc_get_with_retry_AnyError(att, resp) ==
  IF resp.kind = "conn"
    THEN IF att < max_retries THEN "retry" ELSE "Exception"
  ELSE IF resp.kind = "timeout"
    THEN "Exception"
  ELSE IF resp.status >= 400 /\ att < max_retries
    THEN "retry"
  ELSE raise_for_status(resp)

\* One turn of the while loop of sc_get_with_retry at attempt number att,
\* when session.get produced resp: "retry" (sleep, attempt += 1, continue),
\* "return", or the exception that leaves the function.
sc_get_with_retry(att, resp) ==
  IF resp.kind = "conn"
    THEN IF att < max_retries THEN "retry" ELSE "Exception"
  ELSE IF resp.kind = "timeout"
    THEN "Exception"
  ELSE IF resp.status \in RETRY_STATUS /\ att < max_retries
    THEN "retry"
  ELSE raise_for_status(resp)

\* The same turn in run_pipeline.py, whose loop has no try around session.get:
\* every exception of session.get leaves the function.
sc_get_with_retry_rp(att, resp) ==
  IF resp.kind # "http"
    THEN "Exception"
  ELSE IF resp.status \in RETRY_STATUS /\ att < max_retries
    THEN "retry"
  ELSE raise_for_status(resp)

\* The exception object that reaches the caller.
ExcOf(resp) ==
  IF resp.kind = "http"
    THEN [type |-> "HTTPError", status |-> resp.status]
    ELSE [type |-> "Exception", status |-> None]
NoExc == [type |-> "none", status |-> None]

Min(a, b) == IF a < b THEN a ELSE b

RECURSIVE Pow2(_)
Pow2(k) == IF k <= 0 THEN 1 ELSE 2 * Pow2(k - 1)

\* float(retry_after): the header values the model uses.
ParsesAsFloat(s) == s \in {"7"}
FloatOf(s)       == IF s = "7" THEN 7 ELSE 0

\* Mutant: a header that is no number falls through to the exponential delay.
_sleep_backoff_NoFallback(att, retry_after) ==
  IF retry_after # "none" /\ ParsesAsFloat(retry_after)
    THEN FloatOf(retry_after)
    ELSE Min(2 * Pow2(att - 1), 20)

\* _sleep_backoff: the seconds slept.
_sleep_backoff(att, retry_after) ==
  IF retry_after # "none"
    THEN IF ParsesAsFloat(retry_after) THEN FloatOf(retry_after) ELSE 2
    ELSE Min(2 * Pow2(att - 1), 20)

\* All complete runs of the loop: the responses session.get produces one
\* after the other, the last one being the first that is not retried.
RECURSIVE GetRun(_, _)
GetRun(script, att) ==
  LET o == sc_get_with_retry(att, Head(script)) IN
    IF o = "retry"
      THEN IF Len(script) = 1 THEN [res |-> "unfinished", exc |-> NoExc]
                              ELSE GetRun(Tail(script), att + 1)
    ELSE IF o = "return" THEN [res |-> "return", exc |-> NoExc]
    ELSE [res |-> "raise", exc |-> ExcOf(Head(script))]

Scripts == UNION {[1..k -> Responses] : k \in 1..max_retries}

\* What one call of sc_get_with_retry can end with.
GetOutcomes == {GetRun(s, 1) : s \in Scripts} \ {[res |-> "unfinished", exc |-> NoExc]}

\* ------------------------------------------------------- upstream bodies
TrackUrns     == 1..MaxTracks
FieldVals     == {"absent", "null", "val"}     \* a profile field in the JSON body
NextHrefs     == {"none", "c1", "c2"}          \* next_href: absent, or a cursor URL
PlaylistTypes == {"album", "playlist"}         \* set_type / playlist_type of a listing
RecStates     == {"drop", "bad", "ok"}         \* a requested track in a bulk response

Range(s) == {s[i] : i \in 1..Len(s)}

RECURSIVE SetToSeq(_)
SetToSeq(S) ==
  IF S = {} THEN <<>>
  ELSE LET m == CHOOSE x \in S : \A y \in S : x <= y IN <<m>> \o SetToSeq(S \ {m})

SeqsUpTo(S, n) == UNION {[1..k -> S] : k \in 0..n}

\* ------------------------------------------------------------ the state
EmptyIndex == [u \in TrackUrns |-> "missing"]
NoMeta     == [artists_in |-> -1, artists_ok |-> -1, artists_failed |-> -1,
               tracks_total |-> -1, albums_total |-> -1, errors_total |-> -1]
Ok         == [type |-> "ok", status |-> None]
Deferred   == [type |-> "deferred", status |-> None]

LocalsInit ==
  /\ followers = "None" /\ track_count_total = "None"
  /\ next_url = "none" /\ page_out = <<>> /\ urns = <<>>
  /\ by_urn = EmptyIndex /\ round_idx = 0 /\ req = <<>> /\ batch_i = 0
  /\ tracks_h = <<>> /\ albums = <<>>

GetIdle ==
  /\ variant = "pipeline_run" /\ attempt = 1 /\ g_pc = "idle"
  /\ sent = 0 /\ resps = <<>> /\ slept = <<>> /\ raised = NoExc

PagIdle ==
  /\ pg_pc = "idle" /\ pg_url = "" /\ pg_out = <<>>
  /\ pg_pages = <<>> /\ pg_last = "absent"

\* No record: what by_urn holds for an identifier that is no key of it.
NoRecord == [urn |-> None, playback_count |-> "absent", favoritings_count |-> "absent",
             comment_count |-> "absent", reposts_count |-> "absent"]

NoUser == [followers |-> "None", track_count_total |-> "None", username |-> "None"]
RfIdle ==
  /\ rf_pc = "idle" /\ rf_pass = 0 /\ rf_user = NoUser /\ rf_fetches = <<0, 0>>

CkIdle == ck_pc = "idle" /\ ck_total = 0 /\ ck_i = 0 /\ ck_reqs = <<>>

SpNoMeta == [artists_in |-> -1, artists_ok |-> -1, artists_failed |-> -1,
             errors_total |-> -1, tracks_total |-> -1]
SpIdle ==
  /\ sp_pc = "load" /\ sp_artists = <<>> /\ sp_idx = 1 /\ sp_step = "head"
  /\ sp_urns = 0 /\ sp_errors = <<>> /\ sp_ok = 0 /\ sp_fail = 0
  /\ sp_tracks_total = 0 /\ sp_meta = SpNoMeta /\ sp_tried = <<>>

PureIdle == u_op = "none" /\ u_in = <<>> /\ u_out = <<>>

SafeIdle ==
  /\ hs_pc = "idle" /\ hs_urns = <<>> /\ hs_by = [u \in 1..MaxTracks |-> NoRecord]
  /\ hs_round = 0 /\ hs_ret = <<>> /\ hs_calls = 0 /\ hs_req = {} /\ hs_failed = FALSE
  /\ hs_resp = {}

BatIdle ==
  /\ hb_pc = "idle" /\ hb_urns = <<>> /\ hb_i = 0 /\ hb_out = <<>>
  /\ hb_reqs = <<>> /\ hb_items = <<>>

Init ==
  /\ pc = "token" /\ artists = <<>> /\ idx = 1 /\ r_idx = 1 /\ step = "head"
  /\ track_rows = <<>> /\ album_rows = <<>> /\ artist_rows = <<>> /\ error_rows = <<>>
  /\ tracks_total = 0 /\ albums_total = 0
  /\ success_urns = {} /\ retry_candidates = <<>>
  /\ LocalsInit
  /\ meta = NoMeta /\ writes = 0 /\ drive_link = FALSE /\ notified = FALSE
  /\ attempts = <<>>
  /\ outcome = [p \in 1..2 |-> [a \in 1..NumArtists |-> NoExc]]
  /\ GetIdle
  /\ PagIdle
  /\ BatIdle
  /\ SafeIdle
  /\ PureIdle
  /\ RfIdle
  /\ CkIdle
  /\ SpIdle
  /\ last_get = "none"

\* The locals of an attempt are dead once it ends: every one is assigned
\* again before it is read.
ResetLocals ==
  /\ followers' = "None" /\ track_count_total' = "None"
  /\ next_url' = "none" /\ page_out' = <<>> /\ urns' = <<>>
  /\ by_urn' = EmptyIndex /\ round_idx' = 0 /\ req' = <<>> /\ batch_i' = 0
  /\ tracks_h' = <<>> /\ albums' = <<>>

\* --------------------------------------------------------------- startup
\* sc_get_access_token: r.raise_for_status() is not caught by main.
GetToken ==
  /\ pc = "token"
  /\ \E ok \in BOOLEAN : pc' = IF ok THEN "load" ELSE "crashed"
  /\ UNCHANGED <<artists, idx, r_idx, step, outVars, locVars, attempt,
                 endVars, histVars, unitVars, last_get>>

\* load_artists_any: the list comes back deduplicated (drop_duplicates), or
\* the RuntimeError leaves main.
LoadArtists ==
  /\ pc = "load"
  /\ \/ \E n \in 0..NumArtists :
          /\ artists' = [i \in 1..n |-> i]
          /\ pc' = "pass1"
     \/ /\ pc' = "crashed"
        /\ UNCHANGED artists
  /\ UNCHANGED <<idx, r_idx, step, outVars, locVars, attempt,
                 endVars, histVars, unitVars, last_get>>

\* ---------------------------------------------------- the two loops
InPass     == pc \in {"pass1", "pass2"}
pass       == IF pc = "pass1" THEN 1 ELSE 2
artist_urn == IF pc = "pass1" THEN artists[idx] ELSE retry_candidates[r_idx]

\* for idx, artist_urn in enumerate(artists, start=1): ... try:
Pass1Begin ==
  /\ pc = "pass1" /\ step = "head" /\ idx <= Len(artists)
  /\ step' = "user"
  /\ attempts' = Append(attempts, <<1, artists[idx]>>)
  /\ UNCHANGED <<pc, artists, idx, r_idx, outVars, locVars, attempt,
                 endVars, outcome, unitVars, last_get>>

\* Mutant: the second pass is left out.
Pass1End_NoSecondPass ==
  /\ pc = "pass1" /\ step = "head" /\ idx > Len(artists)
  /\ pc' = "report"
  /\ UNCHANGED <<artists, idx, r_idx, step, outVars, locVars, attempt,
                 endVars, histVars, unitVars, last_get>>

\* Mutant: the report is also written between the two passes.
Pass1End_WritesReport ==
  /\ pc = "pass1" /\ step = "head" /\ idx > Len(artists)
  /\ pc' = IF retry_candidates # <<>> THEN "pass2" ELSE "report"
  /\ writes' = writes + 1
  /\ UNCHANGED <<artists, idx, r_idx, step, outVars, locVars, attempt,
                 meta, drive_link, notified, histVars, unitVars, last_get>>

\* The first loop is exhausted: if retry_candidates: ...
Pass1End ==
  /\ pc = "pass1" /\ step = "head" /\ idx > Len(artists)
  /\ pc' = IF retry_candidates # <<>> THEN "pass2" ELSE "report"
  /\ UNCHANGED <<artists, idx, r_idx, step, outVars, locVars, attempt,
                 endVars, histVars, unitVars, last_get>>

\* for r_idx, (artist_urn, input_name) in enumerate(retry_candidates, start=1): ... try:
Pass2Begin ==
  /\ pc = "pass2" /\ step = "head" /\ r_idx <= Len(retry_candidates)
  /\ step' = "user"
  /\ attempts' = Append(attempts, <<2, retry_candidates[r_idx]>>)
  /\ UNCHANGED <<pc, artists, idx, r_idx, outVars, locVars, attempt,
                 endVars, outcome, unitVars, last_get>>

Pass2End ==
  /\ pc = "pass2" /\ step = "head" /\ r_idx > Len(retry_candidates)
  /\ pc' = "report"
  /\ UNCHANGED <<artists, idx, r_idx, step, outVars, locVars, attempt,
                 endVars, histVars, unitVars, last_get>>

\* ------------------------------------------------ the except clauses
\* Mutant: the first pass queues the artist at the front of the list.
Pass1Except_Front(e) ==
  /\ retry_candidates' = <<artist_urn>> \o retry_candidates
  /\ idx' = idx + 1
  /\ step' = "head"
  /\ UNCHANGED <<pc, r_idx, error_rows>>

\* Mutant: the first pass records its failure as an error at once, as the
\* single-pass script does, and still queues the artist.
Pass1Except_Records(e) ==
  /\ retry_candidates' = Append(retry_candidates, artist_urn)
  /\ error_rows' = Append(error_rows,
         [artist_urn |-> artist_urn, step |-> "http", http_status |-> e.status])
  /\ idx' = idx + 1
  /\ step' = "head"
  /\ UNCHANGED <<pc, r_idx>>

\* Pass 1, except requests.HTTPError / except Exception: both keep the
\* artist for the second pass.
Pass1Except(e) ==
  /\ retry_candidates' = Append(retry_candidates, artist_urn)
  /\ idx' = idx + 1
  /\ step' = "head"
  /\ UNCHANGED <<pc, r_idx, error_rows>>

\* Mutant: the status is looked up on the exception instead of its response.
ErrorRow_NoStatus(e) ==
  IF e.type = "HTTPError"
    THEN [artist_urn |-> artist_urn, step |-> "retry_http", http_status |-> None]
    ELSE [artist_urn |-> artist_urn, step |-> "retry_exception", http_status |-> None]

\* The Error Record of the second pass (timestamp, label and message left out).
ErrorRow(e) ==
  IF e.type = "HTTPError"
    THEN [artist_urn |-> artist_urn, step |-> "retry_http", http_status |-> e.status]
    ELSE [artist_urn |-> artist_urn, step |-> "retry_exception", http_status |-> None]

\* Mutant: the second pass drops its failure without an error row.
Pass2Except_Silent(e) ==
  /\ r_idx' = r_idx + 1
  /\ step' = "head"
  /\ UNCHANGED <<pc, idx, retry_candidates, error_rows>>

\* Mutant: the second pass queues the failed artist again.
Pass2Except_Requeue(e) ==
  /\ error_rows' = Append(error_rows, ErrorRow(e))
  /\ retry_candidates' = Append(retry_candidates, artist_urn)
  /\ r_idx' = r_idx + 1
  /\ step' = "head"
  /\ UNCHANGED <<pc, idx>>

\* Mutant: the second pass has no except Exception clause.
Pass2Except_HttpOnly(e) ==
  IF e.type = "HTTPError"
    THEN /\ error_rows' = Append(error_rows, ErrorRow(e))
         /\ r_idx' = r_idx + 1
         /\ step' = "head"
         /\ UNCHANGED <<pc, idx, retry_candidates>>
    ELSE /\ pc' = "crashed"
         /\ step' = "head"
         /\ UNCHANGED <<idx, r_idx, retry_candidates, error_rows>>

\* Pass 2, except requests.HTTPError / except Exception.
Pass2Except(e) ==
  /\ error_rows' = Append(error_rows, ErrorRow(e))
  /\ r_idx' = r_idx + 1
  /\ step' = "head"
  /\ UNCHANGED <<pc, idx, retry_candidates>>

\* An exception leaves the try block of the current attempt.
Raise(e) ==
  /\ outcome' = [outcome EXCEPT ![pass][artist_urn] = IF pc = "pass1" THEN Deferred ELSE e]
  /\ IF pc = "pass1" THEN Pass1Except(e) ELSE Pass2Except(e)
  /\ ResetLocals
  /\ UNCHANGED <<artists, track_rows, album_rows, artist_rows, tracks_total,
                 albums_total, success_urns, attempt, endVars, attempts, unitVars>>

\* r.json() on a body that is not JSON.
JsonError == [type |-> "Exception", status |-> None]

\* ------------------------------------------------ the per-artist collector
\* dict.get(key) on a profile body: None for a null value or a missing key.
DictGet(v) == IF v = "val" THEN "val" ELSE "None"

\* sc_paged_get begins: next_url is the first page's URL, out is empty.
StartPaged == next_url' = "first" /\ page_out' = <<>>

collectorFrame == <<pc, artists, idx, r_idx, outVars, attempt, endVars, histVars, unitVars>>

\* Mutant: the artist row is written as soon as the profile is fetched.
UserFetched_EmitsEarly(f, t) ==
  /\ IF DictGet(t) = "None" \/ DictGet(f) = "None"
       THEN /\ followers' = DictGet(f)
            /\ track_count_total' = DictGet(t)
            /\ step' = "user2"
            /\ UNCHANGED pageVars
       ELSE /\ UNCHANGED userVars
            /\ step' = "tracks"
            /\ StartPaged
  /\ artist_rows' = Append(artist_rows, artist_urn)
  /\ UNCHANGED <<pc, artists, idx, r_idx, track_rows, album_rows, error_rows,
                 tracks_total, albums_total, success_urns, retry_candidates,
                 attempt, endVars, histVars, unitVars, urns, hydVars, tracks_h,
                 albums>>

\* user = sc_fetch_user(...); the three user.get(...); the test for a refetch.
\* followers and track_count_total are read after the profile step only for
\* row columns and log lines, so they are kept only up to the refetch.
UserFetched(f, t) ==
  /\ IF DictGet(t) = "None" \/ DictGet(f) = "None"
       THEN /\ followers' = DictGet(f)
            /\ track_count_total' = DictGet(t)
            /\ step' = "user2"
            /\ UNCHANGED pageVars
       ELSE /\ UNCHANGED userVars
            /\ step' = "tracks"
            /\ StartPaged
  /\ UNCHANGED <<collectorFrame, urns, hydVars, tracks_h, albums>>

FetchUser ==
  /\ InPass /\ step = "user"
  /\ \E g \in GetOutcomes :
       IF g.res = "raise" THEN Raise(g.exc) /\ last_get' = "failed"
       ELSE \/ Raise(JsonError) /\ last_get' = "failed"
            \/ /\ last_get' = "ok"
               /\ \E f \in FieldVals, t \in FieldVals : UserFetched(f, t)

\* Mutant: an exception of the second profile fetch leaves the try block.
RefetchUser_Propagates ==
  /\ InPass /\ step = "user2"
  /\ \E g \in GetOutcomes :
       IF g.res = "raise" THEN Raise(g.exc) /\ last_get' = "failed"
       ELSE \/ Raise(JsonError) /\ last_get' = "failed"
            \/ /\ last_get' = "ok"
               /\ followers' = "None" /\ track_count_total' = "None"
               /\ step' = "tracks"
               /\ StartPaged
               /\ UNCHANGED <<collectorFrame, urns, hydVars, tracks_h, albums>>

\* user2 = sc_fetch_user(...) inside its own try: whether it returns (the
\* three user2.get(key, default)) or raises (except Exception: print), the
\* attempt goes on with the track listing.
RefetchUser ==
  /\ InPass /\ step = "user2"
  /\ \E g \in GetOutcomes :
       /\ last_get' \in (IF g.res = "raise" THEN {"failed"} ELSE {"failed", "ok"})
       /\ followers' = "None" /\ track_count_total' = "None"
       /\ step' = "tracks"
       /\ StartPaged
  /\ UNCHANGED <<collectorFrame, urns, hydVars, tracks_h, albums>>

\* sc_hydrate_tracks_safe(sess, urns) begins, after urns has been assigned.
StartHydrate(us) ==
  IF us = <<>>
    THEN \* if not urns: return []  -> on to sc_user_albums_with_tracks
         /\ tracks_h' = <<>>
         /\ step' = "albums"
         /\ StartPaged
         /\ UNCHANGED hydVars
    ELSE /\ step' = "hydrate"
         /\ req' = us /\ batch_i' = 0 /\ round_idx' = 0 /\ by_urn' = EmptyIndex
         /\ next_url' = "none" /\ page_out' = <<>>
         /\ UNCHANGED tracks_h

\* One turn of the while loop of sc_paged_get over /users/{id}/tracks, and
\* what follows the loop when next_href is absent.
TracksPage ==
  /\ InPass /\ step = "tracks"
  /\ \E g \in GetOutcomes :
       IF g.res = "raise" THEN Raise(g.exc) /\ last_get' = "failed"
       ELSE \/ Raise(JsonError) /\ last_get' = "failed"
            \/ /\ last_get' = "ok"
               /\ \E n \in 0..(MaxTracks - Len(page_out)), nh \in NextHrefs :
                 LET out == page_out \o [i \in 1..n |-> Len(page_out) + i] IN
                 /\ IF nh # "none"
                      THEN /\ page_out' = out /\ next_url' = nh
                           /\ UNCHANGED <<step, urns, hydVars, tracks_h>>
                      ELSE /\ urns' = out
                           /\ StartHydrate(out)
                 /\ UNCHANGED <<collectorFrame, userVars, albums>>

\* The batch of the current turn of sc_hydrate_tracks: urns[i:i+BATCH_SIZE].
Batch == SubSeq(req, batch_i + 1, Min(batch_i + BATCH_SIZE, Len(req)))

\* by_urn[u] = t for every returned record.
Merge(index, recs) ==
  [u \in TrackUrns |-> IF u \in DOMAIN recs /\ recs[u] # "drop" THEN recs[u] ELSE index[u]]

\* missing_urns.union(bad_metric_urns)
ToFix(index, us) ==
  {u \in Range(us) : index[u] = "missing"} \cup {u \in TrackUrns : index[u] = "bad"}

\* [by_urn[u] for u in urns if u in by_urn], each returned record projected
\* to its presence.
Resolved(index, us) ==
  LET found == SelectSeq(us, LAMBDA u : index[u] # "missing")
  IN  [i \in 1..Len(found) |-> "track"]

\* One sc_hydrate_tracks call has returned: the next turn of the repair
\* loop, or the end of sc_hydrate_tracks_safe.
AfterHydrate(index) ==
  IF round_idx < max_rounds /\ ToFix(index, urns) # {}
    THEN /\ round_idx' = round_idx + 1
         /\ req' = SetToSeq(ToFix(index, urns))
         /\ batch_i' = 0
         /\ by_urn' = index
         /\ UNCHANGED <<step, tracks_h, pageVars>>
    ELSE /\ tracks_h' = Resolved(index, urns)
         /\ by_urn' = EmptyIndex /\ round_idx' = 0 /\ req' = <<>> /\ batch_i' = 0
         /\ step' = "albums"
         /\ StartPaged

\* One turn of the for loop of sc_hydrate_tracks: one bulk-lookup request.
HydrateBatch ==
  /\ InPass /\ step = "hydrate"
  /\ \E g \in GetOutcomes :
       IF g.res = "raise" THEN Raise(g.exc) /\ last_get' = "failed"
       ELSE \/ Raise(JsonError) /\ last_get' = "failed"
            \/ /\ last_get' = "ok"
               /\ \E recs \in [Range(Batch) -> RecStates] :
                 /\ IF batch_i + BATCH_SIZE < Len(req)
                      THEN /\ by_urn' = Merge(by_urn, recs)
                           /\ batch_i' = batch_i + BATCH_SIZE
                           /\ UNCHANGED <<step, round_idx, req, tracks_h, pageVars>>
                      ELSE AfterHydrate(Merge(by_urn, recs))
                 /\ UNCHANGED <<collectorFrame, userVars, urns, albums>>

is_album(p) == p = "album"

\* One turn of the while loop of sc_paged_get over /users/{id}/playlists,
\* and the album filter after the loop.
AlbumsPage ==
  /\ InPass /\ step = "albums"
  /\ \E g \in GetOutcomes :
       IF g.res = "raise" THEN Raise(g.exc) /\ last_get' = "failed"
       ELSE \/ Raise(JsonError) /\ last_get' = "failed"
            \/ /\ last_get' = "ok"
               /\ \E items \in SeqsUpTo(PlaylistTypes, MaxPlaylists - Len(page_out)),
                  nh \in NextHrefs :
                 /\ IF nh # "none"
                      THEN /\ page_out' = page_out \o items /\ next_url' = nh
                           /\ UNCHANGED <<step, albums>>
                      ELSE /\ albums' = SelectSeq(page_out \o items, is_album)
                           /\ next_url' = "none" /\ page_out' = <<>>
                           /\ step' = "emit"
                 /\ UNCHANGED <<collectorFrame, userVars, urns, hydVars, tracks_h>>

Rows(n, a) == [i \in 1..n |-> a]

\* Mutant: an attempt whose hydration left tracks unresolved raises.
Emit_Strict ==
  /\ InPass /\ step = "emit"
  /\ IF Len(tracks_h) < Len(urns)
       THEN Raise([type |-> "Exception", status |-> None]) /\ UNCHANGED last_get
       ELSE /\ artist_rows' = Append(artist_rows, artist_urn)
            /\ album_rows' = album_rows \o Rows(Len(albums), artist_urn)
            /\ track_rows' = track_rows \o Rows(Len(tracks_h), artist_urn)
            /\ tracks_total' = tracks_total + Len(tracks_h)
            /\ albums_total' = albums_total + Len(albums)
            /\ success_urns' = success_urns \cup {artist_urn}
            /\ outcome' = [outcome EXCEPT ![pass][artist_urn] = Ok]
            /\ IF pc = "pass1" THEN idx' = idx + 1 /\ UNCHANGED r_idx
                               ELSE r_idx' = r_idx + 1 /\ UNCHANGED idx
            /\ step' = "head"
            /\ ResetLocals
            /\ UNCHANGED <<pc, artists, error_rows, retry_candidates, attempt,
                           endVars, attempts, unitVars, last_get>>

\* The rest of the try block: the rows of the artist, the two totals and
\* the success set.
\* Upstream fields are taken to have their documented JSON types, so the
\* row emission of lines 445-486 runs to its end once every request of the
\* attempt has been answered.
Emit ==
  /\ InPass /\ step = "emit"
  /\ artist_rows' = Append(artist_rows, artist_urn)
  /\ album_rows' = album_rows \o Rows(Len(albums), artist_urn)
  /\ track_rows' = track_rows \o Rows(Len(tracks_h), artist_urn)
  /\ tracks_total' = tracks_total + Len(tracks_h)
  /\ albums_total' = albums_total + Len(albums)
  /\ success_urns' = success_urns \cup {artist_urn}
  /\ outcome' = [outcome EXCEPT ![pass][artist_urn] = Ok]
  /\ IF pc = "pass1" THEN idx' = idx + 1 /\ UNCHANGED r_idx
                     ELSE r_idx' = r_idx + 1 /\ UNCHANGED idx
  /\ step' = "head"
  /\ ResetLocals
  /\ UNCHANGED <<pc, artists, error_rows, retry_candidates, attempt, endVars,
                 attempts, unitVars, last_get>>

\* ------------------------------------------------------------ end of run
\* Mutant: every artist that failed the first pass counts as failed.
Summary_FirstPassFailures ==
  [artists_in     |-> Len(artists),
   artists_ok     |-> Cardinality(success_urns),
   artists_failed |-> Len(retry_candidates),
   tracks_total   |-> tracks_total,
   albums_total   |-> albums_total,
   errors_total   |-> Len(error_rows)]

\* ok_count, fail_count, errors_total and the one row of meta.
Summary ==
  [artists_in     |-> Len(artists),
   artists_ok     |-> Cardinality(success_urns),
   artists_failed |-> Len(artists) - Cardinality(success_urns),
   tracks_total   |-> tracks_total,
   albums_total   |-> albums_total,
   errors_total   |-> Len(error_rows)]

\* The DataFrames, meta, and the ExcelWriter that writes the report file.
WriteReport ==
  /\ pc = "report"
  /\ meta' = Summary
  /\ writes' = writes + 1
  /\ pc' = "upload"
  /\ UNCHANGED <<artists, idx, r_idx, step, outVars, locVars, attempt,
                 drive_link, notified, histVars, unitVars, last_get>>

\* Mutant: an exception of the upload leaves main.
Upload_Propagates ==
  /\ pc = "upload"
  /\ \/ /\ drive_link' = TRUE /\ writes' = writes + 1 /\ pc' = "notify"
     \/ /\ drive_link' = TRUE /\ UNCHANGED writes /\ pc' = "notify"
     \/ /\ UNCHANGED <<drive_link, writes>> /\ pc' = "crashed"
  /\ UNCHANGED <<artists, idx, r_idx, step, outVars, locVars, attempt,
                 meta, notified, histVars, unitVars, last_get>>

\* build_drive, drive_upload and the rewrite of the meta sheet, in one try.
Upload ==
  /\ pc = "upload"
  /\ \/ /\ drive_link' = TRUE /\ writes' = writes + 1   \* uploaded, meta sheet replaced
     \/ /\ drive_link' = TRUE /\ UNCHANGED writes       \* uploaded, the rewrite raised
     \/ /\ UNCHANGED <<drive_link, writes>>             \* build_drive or the upload raised
  /\ pc' = "notify"
  /\ UNCHANGED <<artists, idx, r_idx, step, outVars, locVars, attempt,
                 meta, notified, histVars, unitVars, last_get>>

\* tg_send_text and tg_send_document, in one try.
Notify ==
  /\ pc = "notify"
  /\ \E ok \in BOOLEAN : notified' = ok
  /\ pc' = "done"
  /\ UNCHANGED <<artists, idx, r_idx, step, outVars, locVars, attempt,
                 meta, writes, drive_link, histVars, unitVars, last_get>>

Next ==
  \/ GetToken \/ LoadArtists
  \/ Pass1Begin \/ Pass1End \/ Pass2Begin \/ Pass2End
  \/ FetchUser \/ RefetchUser \/ TracksPage \/ HydrateBatch \/ AlbumsPage \/ Emit
  \/ WriteReport \/ Upload \/ Notify

Spec == Init /\ [][Next]_vars

\* -------------------------------------------- the HTTP client, call by call
Variants == {"pipeline_run", "run_pipeline"}

nonGetVars == <<mainVars, outVars, locVars, endVars, histVars, pagVars, batVars, safeVars, pureVars,
                 last_get, rfVars, ckVars,
                 spVars>>

\* sc_get_with_retry is entered: attempt = 1.
GetCall ==
  /\ g_pc # "active"
  /\ \E v \in Variants : variant' = v
  /\ g_pc' = "active"
  /\ attempt' = 1
  /\ sent' = 0 /\ resps' = <<>> /\ slept' = <<>> /\ raised' = NoExc
  /\ UNCHANGED nonGetVars

\* One turn of the while loop: session.get, then sleep and go round again,
\* return the response, or raise.
GetRequest ==
  /\ g_pc = "active"
  /\ \E resp \in GetResponses :
       LET o == IF variant = "pipeline_run" THEN sc_get_with_retry(attempt, resp)
                                           ELSE sc_get_with_retry_rp(attempt, resp)
       IN
       /\ sent' = sent + 1
       /\ resps' = Append(resps, resp)
       /\ IF o = "retry"
            THEN /\ slept' = Append(slept, _sleep_backoff(attempt, resp.retry_after))
                 /\ attempt' = attempt + 1
                 /\ UNCHANGED <<g_pc, raised>>
            ELSE /\ g_pc' = IF o = "return" THEN "returned" ELSE "raised"
                 /\ raised' = IF o = "return" THEN NoExc ELSE ExcOf(resp)
                 /\ UNCHANGED <<slept, attempt>>
  /\ UNCHANGED <<variant, nonGetVars>>

NextGet == GetCall \/ GetRequest

SpecGet == Init /\ [][NextGet]_vars

\* ------------------------------------- the paginated fetcher, page by page
PageItems   == {"a", "b"}
CollKinds   == {"absent", "null", "array"}
HrefVals    == {"absent", "null", "c1", "c2"}
\* A page body: the "collection" key (absent, null, or an array with its
\* items) and the "next_href" key (absent, null, or a cursor URL).
PageBody(kind, items, href) == [coll |-> kind, items |-> items, next_href |-> href]

\* f"{url}?{urlencode(params)}" after params.setdefault("linked_partitioning", True)
FirstUrl == "url?limit=200&linked_partitioning=True"

\* js.get("collection") or []
Collection(js) == IF js.coll = "array" THEN js.items ELSE <<>>

\* js.get("next_href"): None is written "".
NextHref(js) == IF js.next_href \in {"absent", "null"} THEN "" ELSE js.next_href

\* Truth value of a URL in "while next_url".
Truthy(u) == u # ""

\* Mutant: the page is put in front of what was collected before.
extend_Front(out, coll) == coll \o out

\* out.extend(coll)
extend(out, coll) == out \o coll

nonPagVars == <<mainVars, outVars, locVars, attempt, endVars, histVars, getVars, batVars, safeVars, pureVars,
                 last_get, rfVars, ckVars,
                 spVars>>

\* sc_paged_get is entered: out = [], next_url = the first page's URL.
PagedCall ==
  /\ pg_pc # "loop"
  /\ pg_pc' = "loop"
  /\ pg_url' = FirstUrl
  /\ pg_out' = <<>> /\ pg_pages' = <<>> /\ pg_last' = "absent"
  /\ UNCHANGED nonPagVars

\* One turn of "while next_url": the request of next_url, r.json(), the
\* extension of out, the new next_url and the loop test.
PagedRequest ==
  /\ pg_pc = "loop" /\ Truthy(pg_url)
  /\ \E g \in GetOutcomes :
       IF g.res = "raise"
         THEN pg_pc' = "raised" /\ UNCHANGED <<pg_url, pg_out, pg_pages, pg_last>>
         ELSE \/ pg_pc' = "raised" /\ UNCHANGED <<pg_url, pg_out, pg_pages, pg_last>>
              \/ \E kind \in CollKinds, href \in HrefVals,
                     items \in SeqsUpTo(PageItems, MaxItems - Len(pg_out)) :
                   LET js == PageBody(kind, IF kind = "array" THEN items ELSE <<>>, href)
                   IN  /\ pg_out' = extend(pg_out, Collection(js))
                       /\ pg_url' = NextHref(js)
                       /\ pg_pc' = IF Truthy(NextHref(js)) THEN "loop" ELSE "returned"
                       /\ pg_pages' = IF js.coll = "array" /\ js.items # <<>>
                                        THEN Append(pg_pages, js.items) ELSE pg_pages
                       /\ pg_last' = js.next_href
  /\ UNCHANGED nonPagVars

NextPaged == PagedCall \/ PagedRequest

SpecPaged == Init /\ [][NextPaged]_vars

\* A call of sc_paged_get runs until it returns or raises.
FairPaged == SpecPaged /\ WF_vars(PagedRequest)

\* ------------------------------------------ the batch hydrator, by chunk
\* A record of the bulk lookup: its "urn" and whether its metrics are there.
BatchRecords == [urn : TrackUrns, m : {"ok", "null"}]
\* The JSON body of a bulk lookup: a bare array, an object with a
\* "collection" array, an object whose "collection" is null or absent, or
\* a value that is neither (a string, say).
BodyShapes == {"array", "object", "object_null", "scalar"}

\* items = js.get("collection") if isinstance(js, dict) else js, with the
\* answer of isinstance(items, list).
BodyItems(js) ==
  IF js.shape \in {"object", "object_null"}
    THEN [is_list |-> js.shape = "object", items |-> js.items]
    ELSE [is_list |-> js.shape = "array", items |-> js.items]

\* Mutant: only the object form of the body is read.
Extended_ObjectOnly(out, js) ==
  IF js.shape = "object" THEN out \o js.items ELSE out

\* if isinstance(items, list): out.extend(items)
Extended(out, js) ==
  IF BodyItems(js).is_list THEN out \o BodyItems(js).items ELSE out

\* batch = urns[i:i+BATCH_SIZE]
Slice(us, i) == SubSeq(us, i + 1, Min(i + BATCH_SIZE, Len(us)))

nonBatVars == <<mainVars, outVars, locVars, attempt, endVars, histVars, getVars, pagVars, safeVars, pureVars,
                 last_get, rfVars, ckVars,
                 spVars>>

\* sc_hydrate_tracks is entered with a list of identifiers; with an empty
\* list the loop has no turn.
BatchCall ==
  /\ hb_pc # "loop"
  /\ \E us \in SeqsUpTo(TrackUrns, MaxTracks) :
       /\ hb_urns' = us
       /\ hb_pc' = IF us = <<>> THEN "returned" ELSE "loop"
  /\ hb_i' = 0 /\ hb_out' = <<>> /\ hb_reqs' = <<>> /\ hb_items' = <<>>
  /\ UNCHANGED nonBatVars

\* One turn of "for i in range(0, total, BATCH_SIZE)".
BatchRequest ==
  /\ hb_pc = "loop" /\ hb_i < Len(hb_urns)
  /\ hb_reqs' = Append(hb_reqs, Slice(hb_urns, hb_i))
  /\ \E g \in GetOutcomes :
       IF g.res = "raise"
         THEN hb_pc' = "raised" /\ UNCHANGED <<hb_i, hb_out, hb_items>>
         ELSE \/ hb_pc' = "raised" /\ UNCHANGED <<hb_i, hb_out, hb_items>>
              \/ \E shape \in BodyShapes,
                     items \in SeqsUpTo(BatchRecords, Len(Slice(hb_urns, hb_i))) :
                   LET js == [shape |-> shape,
                              items |-> IF shape \in {"array", "object"} THEN items ELSE <<>>]
                   IN  /\ hb_out' = Extended(hb_out, js)
                       /\ hb_items' = hb_items \o js.items
                       /\ hb_i' = hb_i + BATCH_SIZE
                       /\ hb_pc' = IF hb_i + BATCH_SIZE < Len(hb_urns)
                                     THEN "loop" ELSE "returned"
  /\ UNCHANGED <<hb_urns, nonBatVars>>

NextBatch == BatchCall \/ BatchRequest

SpecBatch == Init /\ [][NextBatch]_vars

\* --------------------------------------- the repair loop, call by call
METRIC_KEYS == {"playback_count", "favoritings_count", "comment_count", "reposts_count"}

\* The metrics a record of the bulk lookup comes with: all there, some of
\* them zero; one of them null; one of the keys absent.
MetricProfiles ==
  { [playback_count |-> "0", favoritings_count |-> "7", comment_count |-> "0", reposts_count |-> "7"],
    [playback_count |-> "7", favoritings_count |-> "null", comment_count |-> "7", reposts_count |-> "7"],
    [playback_count |-> "0", favoritings_count |-> "0", comment_count |-> "0", reposts_count |-> "absent"] }

SafeRecord(u, p) ==
  [urn |-> u, playback_count |-> p.playback_count, favoritings_count |-> p.favoritings_count,
   comment_count |-> p.comment_count, reposts_count |-> p.reposts_count]

\* The record lists a bulk lookup for at most limit identifiers answers
\* with: in any order, for any identifiers, one record an identifier.
SafeResponses(limit) ==
  UNION { { [i \in 1..k |-> SafeRecord(f[i], p[i])] :
              f \in {g \in [1..k -> TrackUrns] : \A i, j \in 1..k : g[i] = g[j] => i = j},
              p \in [1..k -> MetricProfiles] } :
          k \in 0..Min(limit, MaxTracks) }

\* tr.get(k) is None
GetIsNone(tr, k) == tr[k] \in {"absent", "null"}

\* Mutant: a metric counts as missing when it is falsy.
track_metrics_any_missing_Falsy(tr) ==
  \E k \in METRIC_KEYS : tr[k] \in {"absent", "null", "0"}

track_metrics_any_missing(tr) == \E k \in METRIC_KEYS : GetIsNone(tr, k)

\* u in by_urn
InIndex(by, u) == by[u] # NoRecord

\* Mutant: a record already in the index is kept.
RECURSIVE Indexed_KeepOld(_, _)
Indexed_KeepOld(by, recs) ==
  IF recs = <<>> THEN by
  ELSE Indexed_KeepOld(IF Head(recs).urn # None /\ ~InIndex(by, Head(recs).urn)
                         THEN [by EXCEPT ![Head(recs).urn] = Head(recs)] ELSE by,
                       Tail(recs))

\* for t in tracks: u = t.get("urn"); if u: by_urn[u] = t
RECURSIVE Indexed(_, _)
Indexed(by, recs) ==
  IF recs = <<>> THEN by
  ELSE Indexed(IF Head(recs).urn # None
                 THEN [by EXCEPT ![Head(recs).urn] = Head(recs)] ELSE by,
               Tail(recs))

\* Mutant: only the records of input identifiers are looked at.
bad_metric_urns_InputOnly(by) ==
  {u \in Range(hs_urns) : InIndex(by, u) /\ track_metrics_any_missing(by[u])}

\* missing_urns, bad_metric_urns and their union to_fix
missing_urns(by, us)    == Range(us) \ {u \in TrackUrns : InIndex(by, u)}
bad_metric_urns(by)     == {u \in TrackUrns : InIndex(by, u) /\ track_metrics_any_missing(by[u])}
to_fix(by, us)          == missing_urns(by, us) \cup bad_metric_urns(by)

\* Mutant: one round more than max_rounds.
in_rounds_OneMore(r) == r <= max_rounds + 1

\* round_idx in range(1, max_rounds + 1)
in_rounds(r) == r <= max_rounds

\* Mutant: the result follows the keys of the index.
SafeResult_IndexOrder(by, us) ==
  LET keys == SetToSeq({u \in Range(us) : InIndex(by, u)})
  IN  [i \in 1..Len(keys) |-> by[keys[i]]]

\* [by_urn[u] for u in urns if u in by_urn]
SafeResult(by, us) ==
  LET kept == SelectSeq(us, LAMBDA u : InIndex(by, u))
  IN  [i \in 1..Len(kept) |-> by[kept[i]]]

\* Mutant: a request that fails in a repair round ends the repairs.
hydrate_raised_CaughtInRounds(calls) == IF calls >= 1 THEN "returned" ELSE "raised"

\* An exception of sc_hydrate_tracks is caught nowhere in the function.
hydrate_raised(calls) == "raised"

nonSafeVars == <<mainVars, outVars, locVars, attempt, endVars, histVars, getVars, pagVars, batVars, pureVars,
                 last_get, rfVars, ckVars,
                 spVars>>

\* sc_hydrate_tracks_safe is entered; "if not urns: return []".
SafeCall ==
  /\ hs_pc \in {"idle", "returned", "raised"}
  /\ \E us \in SeqsUpTo(TrackUrns, MaxTracks) :
       /\ hs_urns' = us
       /\ hs_pc' = IF us = <<>> THEN "returned" ELSE "first"
  /\ hs_by' = [u \in TrackUrns |-> NoRecord]
  /\ hs_round' = 0 /\ hs_ret' = <<>> /\ hs_calls' = 0 /\ hs_req' = {} /\ hs_failed' = FALSE
  /\ hs_resp' = {}
  /\ UNCHANGED nonSafeVars

\* sc_hydrate_tracks(session, ids) inside the function, asking for at most
\* limit records: it raises, or its records are merged into the index and
\* this gives the program point pt.
SafeHydrate(ids, limit, pt, r) ==
  /\ hs_calls' = hs_calls + 1
  /\ hs_req' = ids
  /\ \E g \in GetOutcomes :
       IF g.res = "raise"
         THEN /\ hs_failed' = TRUE
              /\ hs_resp' = {}
              /\ hs_pc' = hydrate_raised(hs_calls)
              /\ hs_ret' = IF hydrate_raised(hs_calls) = "returned"
                             THEN SafeResult(hs_by, hs_urns) ELSE hs_ret
              /\ UNCHANGED <<hs_by, hs_round>>
         ELSE \E recs \in SafeResponses(limit) :
                /\ hs_failed' = FALSE
                /\ hs_resp' = Range(recs)
                /\ hs_by' = Indexed(hs_by, recs)
                /\ hs_round' = r
                /\ hs_pc' = pt
                /\ hs_ret' = IF pt = "returned"
                               THEN SafeResult(Indexed(hs_by, recs), hs_urns) ELSE hs_ret
  /\ UNCHANGED <<hs_urns, nonSafeVars>>

\* tracks = sc_hydrate_tracks(session, urns), the index, and the entry of
\* the for loop with round_idx = 1.
SafeFirst ==
  /\ hs_pc = "first"
  /\ SafeHydrate(Range(hs_urns), Len(hs_urns),
                 IF in_rounds(1) THEN "round" ELSE "returned",
                 IF in_rounds(1) THEN 1 ELSE 0)

\* One turn of the for loop with nothing to fix: break, and the result.
SafeBreak ==
  /\ hs_pc = "round" /\ to_fix(hs_by, hs_urns) = {}
  /\ hs_pc' = "returned"
  /\ hs_ret' = SafeResult(hs_by, hs_urns)
  /\ UNCHANGED <<hs_urns, hs_by, hs_round, hs_calls, hs_req, hs_failed, hs_resp,
                 nonSafeVars>>

\* One turn of the for loop with something to fix: the repair round, and the
\* result when it was the last.
SafeRound ==
  /\ hs_pc = "round" /\ to_fix(hs_by, hs_urns) # {}
  /\ SafeHydrate(to_fix(hs_by, hs_urns), Cardinality(to_fix(hs_by, hs_urns)),
                 IF in_rounds(hs_round + 1) THEN "round" ELSE "returned",
                 IF in_rounds(hs_round + 1) THEN hs_round + 1 ELSE hs_round)

NextSafe == SafeCall \/ SafeFirst \/ SafeBreak \/ SafeRound

SpecSafe == Init /\ [][NextSafe]_vars

\* ------------------------------------------ the side-effect-free pieces
nonPureVars == <<mainVars, outVars, locVars, attempt, endVars, histVars,
                 getVars, pagVars, batVars, safeVars, last_get, rfVars, ckVars,
                 spVars>>

\* No piece has been applied yet: each behaviour applies one piece to one
\* input.
Fresh == u_op = "none"

\* The application of the piece op to the input x with the result y.
Applied(op, x, y) ==
  /\ u_op' = op /\ u_in' = x /\ u_out' = y
  /\ UNCHANGED nonPureVars

\* --- the profile fields of one attempt (main, both passes)
ProfileKeys   == {"username", "followers_count", "track_count"}
\* A profile body: each key absent, null, or with a value.
KeyStates     == {"absent", "null", "v"}
ProfileBodies == [followers_count : KeyStates, track_count : KeyStates,
                  username : KeyStates]
\* The first fetch and the second, which returns a body or raises.
ProfileInputs == [first : ProfileBodies, raised : BOOLEAN, second : ProfileBodies]

\* user.get(k): the value of the first fetch is written "v1".
UserGet(body, k) == IF body[k] = "v" THEN "v1" ELSE "None"

\* user2.get(k, default): the value of the second fetch is written "v2".
User2Get(body, k, default) ==
  IF body[k] = "absent" THEN default
  ELSE IF body[k] = "null" THEN "None"
  ELSE "v2"

\* username, followers and track_count_total after the profile step, and
\* the number of profile fetches made.
ProfileStep(x) ==
  LET username  == UserGet(x.first, "username")
      fol       == UserGet(x.first, "followers_count")
      total     == UserGet(x.first, "track_count")
  IN  IF total = "None" \/ fol = "None"
        THEN IF x.raised
               THEN [fetches |-> 2, followers |-> fol,
                     track_count_total |-> total, username |-> username]
               ELSE [fetches |-> 2,
                     followers |-> User2Get(x.second, "followers_count", fol),
                     track_count_total |-> User2Get(x.second, "track_count", total),
                     username |-> User2Get(x.second, "username", username)]
        ELSE [fetches |-> 1, followers |-> fol,
              track_count_total |-> total, username |-> username]

ApplyProfile ==
  /\ Fresh
  /\ \E x \in ProfileInputs : Applied("profile", x, ProfileStep(x))

\* --- the artist list (load_artists_df_from_drive, load_artists_df)
\* A text is a sequence of pieces: a blank, the digit 7, the letter a, or
\* the prefix of the canonical form.
Prefix == "soundcloud:users:"
Cells  == { <<>>, <<" ">>, <<"7">>, <<"7", "7">>, <<" ", "7">>, <<"7", " ">>,
            <<"a">>, <<"7", "a">>, <<Prefix, "7">>, <<Prefix, "7", "7">>,
            <<Prefix, "a">> }

\* str.strip()
RECURSIVE lstrip(_)
lstrip(t) == IF t # <<>> /\ Head(t) = " " THEN lstrip(Tail(t)) ELSE t
RECURSIVE rstrip(_)
rstrip(t) ==
  IF t # <<>> /\ t[Len(t)] = " " THEN rstrip(SubSeq(t, 1, Len(t) - 1)) ELSE t
strip(t) == rstrip(lstrip(t))

\* str.fullmatch(r"\d+")
mask_num(t) == t # <<>> /\ \A i \in DOMAIN t : t[i] = "7"

\* The cell after strip and the mapping of the digit strings.
normalized(cell) ==
  LET t == strip(cell) IN IF mask_num(t) THEN <<Prefix>> \o t ELSE t

\* Mutant: of equal rows the last is kept.
RECURSIVE drop_duplicates_KeepLast(_)
drop_duplicates_KeepLast(col) ==
  IF col = <<>> THEN <<>>
  ELSE IF \E i \in 2..Len(col) : col[i] = Head(col)
         THEN drop_duplicates_KeepLast(Tail(col))
         ELSE <<Head(col)>> \o drop_duplicates_KeepLast(Tail(col))

\* DataFrame.drop_duplicates: of equal rows the first is kept.
RECURSIVE drop_duplicates(_)
drop_duplicates(col) ==
  IF col = <<>> THEN <<>>
  ELSE LET front == drop_duplicates(SubSeq(col, 1, Len(col) - 1))
           last  == col[Len(col)]
       IN  IF \E i \in DOMAIN front : front[i] = last
             THEN front ELSE Append(front, last)

\* The artist_urn column of the loaded frame.
load_artists(column) ==
  LET col == [i \in DOMAIN column |-> normalized(column[i])]
  IN  drop_duplicates(SelectSeq(col, LAMBDA t : t # <<>>))

ApplyLoad ==
  /\ Fresh
  /\ \E column \in SeqsUpTo(Cells, MaxCells) :
       Applied("load", column, load_artists(column))

\* --- compose_release_date
\* What tr.get(key) yields: None (key absent or null), a JSON number, a
\* string of digits, another non-empty string, or the empty string.
DateNumbers == {0, 3, 12, 2024}
DateFields  ==
  [kind : {"int", "digits"}, n : DateNumbers] \cup
  [kind : {"None", "text", "empty"}, n : {0}]

\* Mutant: a field counts when it is not None.
truthy_NotNone(v) == v.kind # "None"

\* The truth value of a field in "if y and m and d".
truthy(v) ==
  CASE v.kind = "None"   -> FALSE
    [] v.kind = "int"    -> v.n # 0
    [] v.kind = "digits" -> TRUE
    [] v.kind = "text"   -> TRUE
    [] v.kind = "empty"  -> FALSE

\* int(v) raises ValueError for a string that is no integer literal.
int_raises(v) == v.kind \in {"text", "empty"}

\* f"{n:0wd}": the decimal digits of n, zeros in front up to the width w.
RECURSIVE ZeroPad(_, _)
ZeroPad(digits, w) == IF Len(digits) < w THEN ZeroPad("0" \o digits, w) ELSE digits
format_d(n, w) == ZeroPad(ToString(n), w)

compose_release_date(y, m, d) ==
  IF truthy(y) /\ truthy(m) /\ truthy(d)
    THEN IF int_raises(y) \/ int_raises(m) \/ int_raises(d)
           THEN "None"
           ELSE format_d(y.n, 4) \o "-" \o format_d(m.n, 2) \o "-" \o format_d(d.n, 2)
    ELSE "None"

ApplyDate ==
  /\ Fresh
  /\ \E y, m, d \in DateFields :
       Applied("date", <<y, m, d>>, compose_release_date(y, m, d))

\* --- extract_cover_sig
\* An artwork URL is a sequence of pieces: "/", ".", "-" and the two
\* alphanumeric words "artworks" and "ab".
Words     == {"artworks", "ab"}
UrlPieces == {"/", ".", "-"} \cup Words
\* The argument: None, or a string (the empty one included).
Urls      == {[present |-> FALSE, url |-> <<>>]} \cup
             [present : {TRUE}, url : SeqsUpTo(UrlPieces, MaxUrlLen)]

Absent     == [none |-> TRUE, s |-> <<>>]
Present(t) == [none |-> FALSE, s |-> t]

\* The last place of the run of word pieces that starts at place j.
RunEnd(url, j) ==
  CHOOSE k \in j..Len(url) :
    /\ \A x \in j..k : url[x] \in Words
    /\ k = Len(url) \/ url[k + 1] \notin Words

\* r'artworks-([A-Za-z0-9]+)-' matches with "artworks" at place i.
MatchAt(url, i) ==
  /\ i + 3 <= Len(url)
  /\ url[i] = "artworks" /\ url[i + 1] = "-" /\ url[i + 2] \in Words
  /\ LET e == RunEnd(url, i + 2) IN e + 1 <= Len(url) /\ url[e + 1] = "-"

\* artwork_url.rsplit('/', 1)[-1]
rsplit_last(url) ==
  IF \E i \in DOMAIN url : url[i] = "/"
    THEN LET i == CHOOSE i \in DOMAIN url :
                    url[i] = "/" /\ \A j \in (i + 1)..Len(url) : url[j] # "/"
         IN  SubSeq(url, i + 1, Len(url))
    ELSE url

\* Mutant: the part before the last dot.
split_first_LastDot(base) ==
  IF \E i \in DOMAIN base : base[i] = "."
    THEN LET i == CHOOSE i \in DOMAIN base :
                    base[i] = "." /\ \A j \in (i + 1)..Len(base) : base[j] # "."
         IN  SubSeq(base, 1, i - 1)
    ELSE base

\* base.split('.')[0]
split_first(base) ==
  IF \E i \in DOMAIN base : base[i] = "."
    THEN LET i == CHOOSE i \in DOMAIN base :
                    base[i] = "." /\ \A j \in 1..(i - 1) : base[j] # "."
         IN  SubSeq(base, 1, i - 1)
    ELSE base

extract_cover_sig(artwork_url) ==
  IF ~artwork_url.present \/ artwork_url.url = <<>> THEN Absent
  ELSE LET url == artwork_url.url IN
       IF \E i \in DOMAIN url : MatchAt(url, i)
         THEN LET i == CHOOSE i \in DOMAIN url :
                         MatchAt(url, i) /\ \A j \in 1..(i - 1) : ~MatchAt(url, j)
              IN  Present(SubSeq(url, i + 2, RunEnd(url, i + 2)))
         ELSE LET base == rsplit_last(url)
              IN  IF base # <<>> THEN Present(split_first(base)) ELSE Absent

ApplyCover ==
  /\ Fresh
  /\ \E a \in Urls : Applied("cover", a, extract_cover_sig(a))

\* --- build_album_map, flatten_album_fields
\* An album of the listing: with all its fields, or with its fields null.
\* Its tracks are entries with the urn of a track or without one; a null
\* tracks field reads as no entry ("or []").
AlbumArtwork == [present |-> TRUE, url |-> <<"artworks", "-", "ab", "-">>]
NoArtwork    == [present |-> FALSE, url |-> <<>>]
EntryUrns    == {"None", "t1"}
JoinAlbums   ==
  [urn : {"a"}, title : {"T"}, artwork_url : {AlbumArtwork},
   tracks : SeqsUpTo(EntryUrns, MaxAlbums)] \cup
  [urn : {"None"}, title : {"None"}, artwork_url : {NoArtwork},
   tracks : SeqsUpTo(EntryUrns, MaxAlbums)]

\* The info record that build_album_map files under each track of alb.
album_info(alb) ==
  [album_artwork_url |-> alb.artwork_url,
   album_cover_sig   |-> extract_cover_sig(alb.artwork_url),
   album_title       |-> alb.title,
   album_urn         |-> alb.urn]

\* The entries of one album's tracks under the urn tu, in order.
RECURSIVE entries_of(_, _, _)
entries_of(info, tracks, tu) ==
  IF tracks = <<>> THEN <<>>
  ELSE (IF Head(tracks) # "None" /\ Head(tracks) = tu THEN <<info>> ELSE <<>>)
         \o entries_of(info, Tail(tracks), tu)

\* Mutant: an album is filed once under a track, however often it lists it.
RECURSIVE album_map_get_OncePerAlbum(_, _)
album_map_get_OncePerAlbum(listing, tu) ==
  IF listing = <<>> THEN <<>>
  ELSE (IF entries_of(album_info(Head(listing)), Head(listing).tracks, tu) # <<>>
          THEN <<album_info(Head(listing))>> ELSE <<>>)
         \o album_map_get_OncePerAlbum(Tail(listing), tu)

\* build_album_map(albums).get(tu) or []
RECURSIVE album_map_get(_, _)
album_map_get(listing, tu) ==
  IF listing = <<>> THEN <<>>
  ELSE entries_of(album_info(Head(listing)), Head(listing).tracks, tu)
         \o album_map_get(Tail(listing), tu)

\* "; ".join(...) or None, the joined string written as the list of its items.
joined(items) == IF items = <<>> THEN Absent ELSE Present(items)

flatten_album_fields(track_urn, listing) ==
  LET al == album_map_get(listing, track_urn)
      of(q, f) == [i \in DOMAIN q |-> q[i][f]]
  IN  IF al = <<>>
        THEN [album_artwork_urls |-> Absent, album_count |-> 0,
              album_cover_sigs |-> Absent, album_titles |-> Absent,
              album_urns |-> Absent, in_album |-> FALSE]
        ELSE [album_artwork_urls |->
                joined(of(SelectSeq(al, LAMBDA a : a.album_artwork_url.present),
                          "album_artwork_url")),
              album_count |-> Len(al),
              album_cover_sigs |->
                joined(of(SelectSeq(al, LAMBDA a : ~a.album_cover_sig.none
                                                   /\ a.album_cover_sig.s # <<>>),
                          "album_cover_sig")),
              album_titles |->
                joined(of(SelectSeq(al, LAMBDA a : a.album_title # "None"),
                          "album_title")),
              album_urns |->
                joined(of(SelectSeq(al, LAMBDA a : a.album_urn # "None"),
                          "album_urn")),
              in_album |-> TRUE]

ApplyJoin ==
  /\ Fresh
  /\ \E listing \in SeqsUpTo(JoinAlbums, MaxAlbums) :
       \E tr_urn \in {"None", "t1", "t2"} :
         Applied("join", [albums |-> listing, tr_urn |-> tr_urn],
                 flatten_album_fields(tr_urn, listing))

\* --- sc_user_albums_with_tracks: the filter over the playlists of an artist
\* The values of set_type and playlist_type: the key missing or null, the
\* empty string, and strings written letter by letter.
TypeFields == {Absent, Present(<<>>), Present(<<"a", "l", "b", "u", "m">>),
               Present(<<"A", "l", "b", "u", "m">>), Present(<<"e", "p">>)}
Playlists  == [set_type : TypeFields, playlist_type : TypeFields]

\* str.lower() over the letters in use.
lower_char(c) == IF c = "A" THEN "a" ELSE c
lower(t) == [i \in DOMAIN t |-> lower_char(t[i])]

\* x or y: x when it is truthy (a string that is not empty), else y.
or_else(x, y) == IF ~x.none /\ x.s # <<>> THEN x ELSE y

\* Mutant: the comparison without lower().
is_album_CaseSensitive(pl) ==
  or_else(or_else(pl.set_type, pl.playlist_type), Present(<<>>)).s
    = <<"a", "l", "b", "u", "m">>

\* (p.get("set_type") or p.get("playlist_type") or "").lower() == "album"
is_album_listing(pl) ==
  lower(or_else(or_else(pl.set_type, pl.playlist_type), Present(<<>>)).s)
    = <<"a", "l", "b", "u", "m">>

\* [a for a in albums if is_album(a)]
sc_user_albums_with_tracks(listing) == SelectSeq(listing, is_album_listing)

\* The filter, then what main derives from its result: the album_urn column
\* of the album rows, and the albums build_album_map files under a track
\* that every playlist lists.
ApplyFilter ==
  /\ Fresh
  /\ \E types \in SeqsUpTo(Playlists, MaxAlbums) :
       LET listing == [i \in DOMAIN types |->
                         [urn |-> i, set_type |-> types[i].set_type,
                          playlist_type |-> types[i].playlist_type]]
           kept    == sc_user_albums_with_tracks(listing)
       IN Applied("filter", [playlists |-> listing],
                  [albums |-> kept,
                   album_rows |-> [i \in DOMAIN kept |-> kept[i].urn],
                   album_map  |-> [i \in DOMAIN kept |-> kept[i].urn]])

NextPure == ApplyProfile \/ ApplyLoad \/ ApplyDate \/ ApplyCover \/ ApplyJoin
              \/ ApplyFilter

SpecPure == Init /\ [][NextPure]_vars

\* ----------------------------- the profile step over the two attempts
nonRfVars == <<mainVars, outVars, locVars, attempt, endVars, histVars,
               getVars, pagVars, batVars, safeVars, pureVars, last_get, ckVars,
               spVars>>

\* Mutant: the profile is fetched again whatever the first fetch gave.
needs_refetch_Always(user) == TRUE

\* if track_count_total is None or followers is None
needs_refetch(user) == user.track_count_total = "None" \/ user.followers = "None"

\* One more profile fetch in the current pass.
RfCounted == rf_fetches' = [rf_fetches EXCEPT ![rf_pass] = @ + 1]

\* The artist comes up in the first loop.
RfBegin ==
  /\ rf_pc = "idle"
  /\ rf_pc' = "user" /\ rf_pass' = 1
  /\ UNCHANGED <<rf_user, rf_fetches, nonRfVars>>

\* except requests.HTTPError / except Exception of the current pass: the
\* artist is queued for the second loop, where it comes up again, or has
\* its error row.
RfExcept ==
  /\ rf_user' = NoUser
  /\ IF rf_pass = 1 THEN rf_pass' = 2 /\ rf_pc' = "user"
                    ELSE rf_pc' = "failed" /\ UNCHANGED rf_pass

\* user = sc_fetch_user(...) and the three user.get(...)
RfFetch ==
  /\ rf_pc = "user"
  /\ RfCounted
  /\ \E g \in GetOutcomes :
       IF g.res = "raise" THEN RfExcept
       ELSE \/ RfExcept
            \/ \E body \in ProfileBodies :
                 LET user == [followers |-> UserGet(body, "followers_count"),
                              track_count_total |-> UserGet(body, "track_count"),
                              username |-> UserGet(body, "username")]
                 IN  /\ rf_user' = user
                     /\ rf_pc' = IF needs_refetch(user) THEN "user2" ELSE "rest"
                     /\ UNCHANGED rf_pass
  /\ UNCHANGED nonRfVars

\* user2 = sc_fetch_user(...) in its own try, and the three
\* user2.get(key, default)
RfRefetch ==
  /\ rf_pc = "user2"
  /\ RfCounted
  /\ \E g \in GetOutcomes :
       IF g.res = "raise" THEN UNCHANGED rf_user
       ELSE \/ UNCHANGED rf_user
            \/ \E body \in ProfileBodies :
                 rf_user' =
                   [followers |-> User2Get(body, "followers_count", rf_user.followers),
                    track_count_total |->
                      User2Get(body, "track_count", rf_user.track_count_total),
                    username |-> User2Get(body, "username", rf_user.username)]
  /\ rf_pc' = "rest"
  /\ UNCHANGED <<rf_pass, nonRfVars>>

\* The rest of the try block: it runs to its end, or one of its requests
\* raises.
RfRest ==
  /\ rf_pc = "rest"
  /\ \/ rf_pc' = "ok" /\ UNCHANGED <<rf_pass, rf_user>>
     \/ RfExcept
  /\ UNCHANGED <<rf_fetches, nonRfVars>>

NextRefetch == RfBegin \/ RfFetch \/ RfRefetch \/ RfRest

SpecRefetch == Init /\ [][NextRefetch]_vars

\* ------------------------------------- the chunks of one hydrate call
nonCkVars == <<mainVars, outVars, locVars, attempt, endVars, histVars,
               getVars, pagVars, batVars, safeVars, pureVars, rfVars, last_get,
               spVars>>

\* Mutant: a slice reaches one identifier into the next.
batch_slice_Overlap(i, total) == <<i + 1, Min(i + BATCH_SIZE + 1, total)>>

\* batch = urns[i:i+BATCH_SIZE], as the first and the last position it holds.
batch_slice(i, total) == <<i + 1, Min(i + BATCH_SIZE, total)>>

\* sc_hydrate_tracks is entered with total identifiers; range(0, 0, 50) has
\* no turn.
ChunkCall ==
  /\ ck_pc # "loop"
  /\ \E total \in 0..MaxIds :
       /\ ck_total' = total
       /\ ck_pc' = IF total = 0 THEN "returned" ELSE "loop"
  /\ ck_i' = 0 /\ ck_reqs' = <<>>
  /\ UNCHANGED nonCkVars

\* One turn of "for i in range(0, total, BATCH_SIZE)": the request for the
\* slice, which raises or is answered.
ChunkRequest ==
  /\ ck_pc = "loop" /\ ck_i < ck_total
  /\ ck_reqs' = Append(ck_reqs, batch_slice(ck_i, ck_total))
  /\ \E g \in GetOutcomes :
       IF g.res = "raise"
         THEN ck_pc' = "raised" /\ UNCHANGED ck_i
         ELSE /\ ck_i' = ck_i + BATCH_SIZE
              /\ ck_pc' = IF ck_i + BATCH_SIZE < ck_total THEN "loop" ELSE "returned"
  /\ UNCHANGED <<ck_total, nonCkVars>>

NextChunks == ChunkCall \/ ChunkRequest

SpecChunks == Init /\ [][NextChunks]_vars

\* ------------------------------------------ run_pipeline.main, one pass
nonSpVars == <<mainVars, outVars, locVars, attempt, endVars, histVars,
               getVars, pagVars, batVars, safeVars, pureVars, rfVars, ckVars,
               last_get>>

\* load_artists_df: the list comes back deduplicated.
SpLoad ==
  /\ sp_pc = "load"
  /\ \E n \in 0..NumArtists : sp_artists' = [i \in 1..n |-> i]
  /\ sp_pc' = "loop"
  /\ UNCHANGED <<sp_idx, sp_step, sp_urns, sp_errors, sp_ok, sp_fail,
                 sp_tracks_total, sp_meta, sp_tried, nonSpVars>>

\* for idx, artist_urn in enumerate(artists, start=1): ... try:
SpBegin ==
  /\ sp_pc = "loop" /\ sp_step = "head" /\ sp_idx <= Len(sp_artists)
  /\ sp_step' = "user"
  /\ sp_tried' = Append(sp_tried, sp_artists[sp_idx])
  /\ UNCHANGED <<sp_pc, sp_artists, sp_idx, sp_urns, sp_errors, sp_ok, sp_fail,
                 sp_tracks_total, sp_meta, nonSpVars>>

\* Mutant: except Exception writes no error row.
SpErrorRows_HttpOnly(e) ==
  IF e.type = "HTTPError"
    THEN Append(sp_errors, [artist_urn |-> sp_artists[sp_idx], step |-> "http",
                            http_status |-> e.status])
    ELSE sp_errors

\* error_rows.append(...) of the two except clauses (timestamp, label and
\* message left out).
SpErrorRows(e) ==
  IF e.type = "HTTPError"
    THEN Append(sp_errors, [artist_urn |-> sp_artists[sp_idx], step |-> "http",
                            http_status |-> e.status])
    ELSE Append(sp_errors, [artist_urn |-> sp_artists[sp_idx], step |-> "exception",
                            http_status |-> None])

\* except requests.HTTPError / except Exception: the error row,
\* fail_count += 1, continue.
SpExcept(e) ==
  /\ sp_errors' = SpErrorRows(e)
  /\ sp_fail' = sp_fail + 1
  /\ sp_idx' = sp_idx + 1
  /\ sp_step' = "head" /\ sp_urns' = 0
  /\ UNCHANGED <<sp_pc, sp_artists, sp_ok, sp_tracks_total, sp_meta, sp_tried>>

\* The step after the requests of step st are answered, the track listing
\* holding n identifiers: sc_hydrate_tracks_by_urns makes no request for an
\* empty list.
SpAfter(st, n) ==
  CASE st = "user"    -> "tracks"
    [] st = "tracks"  -> IF n = 0 THEN "albums" ELSE "hydrate"
    [] st = "hydrate" -> "albums"
    [] st = "albums"  -> "emit"

\* The requests of one step of the try block: the profile, the track
\* listing, the bulk lookup, the playlists.
SpFetch ==
  /\ sp_pc = "loop" /\ sp_step \in {"user", "tracks", "hydrate", "albums"}
  /\ \E g \in GetOutcomes :
       IF g.res = "raise" THEN SpExcept(g.exc)
       ELSE \/ SpExcept(JsonError)
            \/ \E n \in 0..MaxTracks :
                 /\ sp_urns' = IF sp_step = "tracks" THEN n
                                ELSE IF sp_step = "hydrate" THEN Min(n, sp_urns)
                                ELSE sp_urns
                 /\ sp_step' = SpAfter(sp_step, sp_urns')
                 /\ UNCHANGED <<sp_pc, sp_artists, sp_idx, sp_errors, sp_ok,
                                sp_fail, sp_tracks_total, sp_meta, sp_tried>>
  /\ UNCHANGED nonSpVars

\* The rows of the artist, the totals and ok_count += 1.
SpEmit ==
  /\ sp_pc = "loop" /\ sp_step = "emit"
  /\ sp_tracks_total' = sp_tracks_total + sp_urns
  /\ sp_ok' = sp_ok + 1
  /\ sp_idx' = sp_idx + 1
  /\ sp_step' = "head" /\ sp_urns' = 0
  /\ UNCHANGED <<sp_pc, sp_artists, sp_errors, sp_fail, sp_meta, sp_tried,
                 nonSpVars>>

\* The loop is exhausted: the one row of meta.
SpReport ==
  /\ sp_pc = "loop" /\ sp_step = "head" /\ sp_idx > Len(sp_artists)
  /\ sp_meta' = [artists_in |-> Len(sp_artists), artists_ok |-> sp_ok,
                 artists_failed |-> sp_fail, errors_total |-> Len(sp_errors),
                 tracks_total |-> sp_tracks_total]
  /\ sp_pc' = "report"
  /\ UNCHANGED <<sp_artists, sp_idx, sp_step, sp_urns, sp_errors, sp_ok, sp_fail,
                 sp_tracks_total, sp_tried, nonSpVars>>

NextSingle == SpLoad \/ SpBegin \/ SpFetch \/ SpEmit \/ SpReport

SpecSingle == Init /\ [][NextSingle]_vars

\* The process is single-threaded and runs until it returns or raises.
FairSpec == Spec /\ WF_vars(Next)

\* =================================================================
\* Properties of the two-pass controller (Spec)
\* =================================================================
Finished   == pc \in {"report", "upload", "notify", "done"}
Reported   == pc \in {"upload", "notify", "done"}
Loaded     == Range(artists)
FailTypes  == {"HTTPError", "Exception"}

IsPrefix(s, t) == Len(s) <= Len(t) /\ SubSeq(t, 1, Len(s)) = s
Count(seq, x)  == Cardinality({i \in DOMAIN seq : seq[i] = x})
ErrorsOf(a)    == Cardinality({i \in DOMAIN error_rows : error_rows[i].artist_urn = a})

\* The artists attempted in the second pass, in the order of the attempts.
SecondPass ==
  LET p2 == SelectSeq(attempts, LAMBDA t : t[1] = 2)
  IN  [i \in 1..Len(p2) |-> p2[i][2]]

\* The artists whose first-pass attempt failed, in input order.
Deferrals == SelectSeq(artists, LAMBDA a : outcome[1][a] = Deferred)

\* The state of section 4.6 an artist is in.
ArtistState(a) ==
  IF outcome[1][a] = NoExc THEN "pending"
  ELSE IF outcome[1][a] = Ok THEN "succeeded"
  ELSE IF outcome[2][a] = NoExc THEN "retry-queued"
  ELSE IF outcome[2][a] = Ok THEN "succeeded"
  ELSE "failed"

\* C1: every artist is attempted at most twice, at most once in each pass,
\* and an artist whose first-pass attempt succeeded is not attempted again.
C1_AtMostTwoAttempts ==
  \A a \in 1..NumArtists :
    /\ Count(attempts, <<1, a>>) <= 1
    /\ Count(attempts, <<2, a>>) <= 1
    /\ Cardinality({i \in DOMAIN attempts : attempts[i][2] = a}) <= 2
    /\ outcome[1][a] = Ok => Count(attempts, <<2, a>>) = 0

\* A finished run in which one artist was attempted in both passes and
\* another succeeded in the first.
C1_Witness ==
  /\ pc = "done"
  /\ \E a \in Loaded, b \in Loaded :
       /\ Count(attempts, <<1, a>>) = 1 /\ Count(attempts, <<2, a>>) = 1
       /\ outcome[1][b] = Ok

\* C2: the second pass begins only after the first pass has attempted (and
\* finished with) every artist; it attempts exactly the artists whose
\* first-pass attempt failed, each once, in input order; with no first-pass
\* failure there is no second pass.
C2_SecondPassOrder ==
  /\ \A i \in DOMAIN attempts, j \in DOMAIN attempts :
       i < j => attempts[i][1] <= attempts[j][1]
  /\ (SecondPass # <<>> \/ pc = "pass2") =>
       /\ \A a \in Loaded : outcome[1][a] # NoExc
       /\ Deferrals # <<>>
  /\ IsPrefix(SecondPass, Deferrals)
  /\ Finished => SecondPass = Deferrals

\* A finished run whose second pass attempted two artists.
C2_Witness ==
  /\ pc = "done"
  /\ Len(SecondPass) >= 2
  /\ SecondPass = Deferrals

\* C3: once the two loops are over, every artist is succeeded or failed,
\* none pending or retry-queued; the succeeded ones are those in the
\* success set, the failed ones those with an Error Record.
C3_TerminalStates ==
  Finished =>
    \A a \in Loaded :
      /\ ArtistState(a) \in {"succeeded", "failed"}
      /\ ArtistState(a) = "succeeded" <=> a \in success_urns
      /\ ArtistState(a) = "failed" <=> ErrorsOf(a) > 0

\* A finished run with one artist succeeded and one failed.
C3_Witness ==
  /\ pc = "done"
  /\ \E a \in Loaded, b \in Loaded :
       ArtistState(a) = "succeeded" /\ ArtistState(b) = "failed"

C4_Rows ==
  \A a \in 1..NumArtists :
    /\ (outcome[1][a] = Deferred /\ outcome[2][a] = Ok) =>
         Count(artist_rows, a) = 1 /\ ErrorsOf(a) = 0
    /\ outcome[2][a].type \in FailTypes =>
         /\ Count(artist_rows, a) = 0
         /\ Count(album_rows, a) = 0
         /\ Count(track_rows, a) = 0
         /\ ErrorsOf(a) = 1
    /\ (outcome[1][a] = Deferred /\ outcome[2][a] = NoExc) => ErrorsOf(a) = 0

\* C4: an artist that fails the first pass and succeeds in the second has
\* one artist row and no Error Record; one that fails the second pass too
\* has no artist, album or track row and one Error Record; a first-pass
\* failure alone appends no Error Record; and in every step the Error
\* Records already appended stay as they are.
C4_RowsAndErrors == []C4_Rows /\ [][IsPrefix(error_rows, error_rows')]_vars

\* A finished run with one artist recovered in the second pass and one
\* failed in both.
C4_Witness ==
  /\ pc = "done"
  /\ \E a \in Loaded, b \in Loaded :
       /\ outcome[1][a] = Deferred /\ outcome[2][a] = Ok
       /\ outcome[1][b] = Deferred /\ outcome[2][b].type \in FailTypes

\* C5: the Error Record of an artist describes the exception of its
\* second-pass attempt: step "retry_http" and the response's status for an
\* HTTPError, step "retry_exception" and no status for any other exception;
\* every artist that failed both passes has one, and artists_ok leaves
\* those artists out.
C5_ErrorRecord ==
  /\ \A i \in DOMAIN error_rows :
       LET r == error_rows[i]
           o == outcome[2][r.artist_urn]
       IN  /\ outcome[1][r.artist_urn] = Deferred
           /\ o.type \in FailTypes
           /\ o.type = "HTTPError" =>
                r.step = "retry_http" /\ r.http_status = o.status /\ o.status # None
           /\ o.type = "Exception" =>
                r.step = "retry_exception" /\ r.http_status = None
           /\ r.artist_urn \notin success_urns
  /\ \A a \in Loaded : outcome[2][a].type \in FailTypes => ErrorsOf(a) = 1
  /\ Reported =>
       meta.artists_ok <=
         Len(artists) - Cardinality({a \in Loaded : outcome[2][a].type \in FailTypes})

\* A finished run in which an artist failed both passes, the second with a
\* 404, and the summary counts no artist as succeeded but the other one.
C5_Witness ==
  /\ pc = "done"
  /\ \E i \in DOMAIN error_rows :
       /\ error_rows[i].step = "retry_http"
       /\ error_rows[i].http_status = 404
       /\ outcome[1][error_rows[i].artist_urn] = Deferred
       /\ outcome[2][error_rows[i].artist_urn] = [type |-> "HTTPError", status |-> 404]
  /\ meta.artists_ok = Len(artists) - 1

Succeeded == {a \in Loaded : outcome[1][a] = Ok \/ outcome[2][a] = Ok}

\* C6: the summary written with the report counts the input artists, the
\* artists that succeeded in either pass, the rest as failed, the track
\* rows, the album rows and the Error Records.
C6_Summary ==
  Reported =>
    meta = [artists_in     |-> Len(artists),
            artists_ok     |-> Cardinality(Succeeded),
            artists_failed |-> Len(artists) - Cardinality(Succeeded),
            tracks_total   |-> Len(track_rows),
            albums_total   |-> Len(album_rows),
            errors_total   |-> Len(error_rows)]

\* The scenario of section 8 with the largest listing of the model: A
\* succeeds in pass 1 with MaxTracks tracks and one album, B fails pass 1
\* and succeeds in pass 2 with no track.
C6_Witness ==
  /\ pc = "done"
  /\ artists = <<1, 2>>
  /\ outcome[1][1] = Ok /\ outcome[1][2] = Deferred /\ outcome[2][2] = Ok
  /\ Count(track_rows, 1) = MaxTracks /\ Count(album_rows, 1) = 1
  /\ Count(track_rows, 2) = 0 /\ Count(album_rows, 2) = 0
  /\ meta = [artists_in |-> 2, artists_ok |-> 2, artists_failed |-> 0,
             tracks_total |-> MaxTracks, albums_total |-> 1, errors_total |-> 0]

\* The step in which the current attempt ends with an exception.
AttemptFails ==
  /\ InPass /\ step # "head"
  /\ outcome[pass][artist_urn] = NoExc
  /\ outcome'[pass][artist_urn].type \in FailTypes \cup {"deferred"}

C7_Caught ==
  AttemptFails =>
    /\ pc' = pc /\ step' = "head"
    /\ pc = "pass1" =>
         /\ idx' = idx + 1
         /\ retry_candidates' = Append(retry_candidates, artist_urn)
         /\ error_rows' = error_rows
    /\ pc = "pass2" =>
         /\ r_idx' = r_idx + 1
         /\ retry_candidates' = retry_candidates
         /\ Len(error_rows') = Len(error_rows) + 1
         /\ error_rows'[Len(error_rows')].artist_urn = artist_urn

C7_GoesOn ==
  /\ pc = "crashed" => attempts = <<>>
  /\ (pc = "pass2" \/ Finished) => \A a \in Loaded : Count(attempts, <<1, a>>) = 1
  /\ Finished =>
       \A a \in Loaded : outcome[1][a] = Deferred => Count(attempts, <<2, a>>) = 1

\* C7: an attempt that ends with an exception, in either pass, leaves the
\* controller in its loop: the artist is queued for the second pass (pass 1)
\* or gets an Error Record (pass 2), the loop moves to the next artist, and
\* every remaining artist of the pass is attempted; the run never aborts
\* once the passes have begun.
C7_FailureIsolated == []C7_GoesOn /\ [][C7_Caught]_vars

\* A finished run in which the first artist failed in both passes, the
\* second time with an exception that is no HTTPError, and the second
\* artist was still attempted in both and failed the second with an HTTPError.
C7_Witness ==
  /\ pc = "done"
  /\ Len(artists) = 2
  /\ outcome[2][artists[1]].type = "Exception"
  /\ outcome[2][artists[2]].type = "HTTPError"

\* C8: once collection has begun, the run eventually finishes both passes
\* and has written the report, whatever the upstream answers.
C8_RunCompletes == (pc = "pass1") ~> (pc = "done" /\ writes >= 1)

\* =================================================================
\* Properties of the HTTP client (SpecGet)
\* =================================================================
IsRetryable(r) ==
  \/ r.kind = "conn"
  \/ r.kind = "http" /\ r.status \in {429, 500, 502, 503, 504}
IsSuccess(r) == r.kind = "http" /\ r.status < 400
IsNonRetryableError(r) ==
  r.kind = "http" /\ r.status >= 400 /\ r.status < 500 /\ r.status # 429

\* C9: one call sends at most 4 requests; every request but the last was
\* answered with a retryable status or a connection fault; and the call has
\* returned as soon as a response has a successful status.
C9_RequestBudget ==
  /\ sent <= 4
  /\ sent = Len(resps)
  /\ \A i \in 1..(Len(resps) - 1) : IsRetryable(resps[i])
  /\ (resps # <<>> /\ IsSuccess(resps[Len(resps)])) => g_pc = "returned"
  /\ g_pc = "returned" => resps # <<>> /\ IsSuccess(resps[Len(resps)])

\* A call that returned on its 4th request, after three retryable answers.
C9_Witness ==
  /\ g_pc = "returned" /\ sent = 4
  /\ resps[1].kind = "conn" /\ resps[2].status = 503 /\ resps[3].status = 429

C11_TransientRetriedLocally ==
  /\ \A i \in DOMAIN resps :
       (IsRetryable(resps[i]) /\ i <= 3) =>
         /\ Len(slept) >= i
         /\ ~(g_pc = "raised" /\ i = Len(resps))
  /\ (g_pc = "raised" /\ IsRetryable(resps[Len(resps)])) => sent = 4

\* The delay of section 4.1 before retry k without a Retry-After header.
Exponential(k) == CASE k = 1 -> 2 [] k = 2 -> 4 [] k = 3 -> 8 [] OTHER -> 20

RECURSIVE Flatten(_)
Flatten(ss) == IF ss = <<>> THEN <<>> ELSE Head(ss) \o Flatten(Tail(ss))

C13_Pages ==
  /\ pg_out = Flatten(pg_pages)
  /\ pg_pc = "returned" => pg_last \in {"absent", "null"} /\ pg_url = ""
  /\ (pg_pc = "loop" /\ pg_url # FirstUrl) =>
       pg_last \in {"c1", "c2"} /\ pg_url = pg_last

C13_Follows ==
  /\ (pg_pc # "loop" /\ pg_pc' = "loop") => pg_url' = FirstUrl /\ pg_out' = <<>>
  /\ (pg_pc = "loop" /\ pg_pc' # "raised") =>
       /\ IsPrefix(pg_out, pg_out')
       /\ pg_pc' = "returned" <=> pg_last' \in {"absent", "null"}
       /\ pg_pc' = "loop" => pg_url' = pg_last'
  /\ (pg_pc = "loop" /\ pg_pc' = "raised") => pg_out' = pg_out

\* C13: what a call has collected is the concatenation of the collections of
\* the pages it visited, in page order and item order (pages without a
\* collection array add nothing); the first request goes to the URL with the
\* linked-pagination flag, every later one to the next_href of the page
\* before, and the call returns exactly at the first page without next_href.
C13_Concatenation == []C13_Pages /\ [][C13_Follows]_vars

\* A call that returned after three pages: two with items, between them one
\* whose collection is null.
C13_Witness ==
  /\ pg_pc = "returned"
  /\ pg_pages = << <<"b">>, <<"a", "b">> >>
  /\ pg_out = <<"b", "a", "b">>

\* C14: a call of the paginated fetcher terminates, also when the cursors
\* the upstream sends repeat.
C14_Terminates == (pg_pc = "loop") ~> (pg_pc \in {"returned", "raised"})

\* =================================================================
\* Properties of the batch hydrator (SpecBatch)
\* =================================================================
UrnsOf(recs) == {recs[i].urn : i \in DOMAIN recs}

\* C15: when sc_hydrate_tracks has returned, its output is the records the
\* upstream sent in arrays or collection arrays, in the order received; an
\* identifier no response held a record for has no record in the output;
\* and every identifier was requested in one chunk only, the chunks
\* requested being the input cut at every 50 identifiers.
C15_OnlyWhatUpstreamReturned ==
  /\ hb_pc = "returned" =>
       /\ hb_out = hb_items
       /\ \A u \in Range(hb_urns) :
            u \notin UrnsOf(hb_items) => u \notin UrnsOf(hb_out)
       /\ Flatten(hb_reqs) = hb_urns
       /\ Len(hb_reqs) = (Len(hb_urns) + BATCH_SIZE - 1) \div BATCH_SIZE
  /\ Len(hb_reqs) <= (Len(hb_urns) + BATCH_SIZE - 1) \div BATCH_SIZE
  /\ \A i \in DOMAIN hb_out : hb_out[i] \in Range(hb_items)

\* A call for identifiers 1 and 2 that returned the one record the upstream
\* sent, in a bare array: identifier 2 was dropped.
C15_Witness ==
  /\ hb_pc = "returned"
  /\ hb_urns = <<1, 2>>
  /\ hb_reqs = << <<1, 2>> >>
  /\ hb_out = << [urn |-> 1, m |-> "ok"] >>

\* =================================================================
\* Properties of the repair loop (SpecSafe)
\* =================================================================
IdsOf(recs)  == [i \in DOMAIN recs |-> recs[i].urn]
IsResolved(u) == hs_by[u] # NoRecord

\* Section 4.4: a record is incomplete when one of its four engagement
\* metrics is null or has no key.
Incomplete(rec) ==
  \/ rec.playback_count \in {"null", "absent"}
  \/ rec.favoritings_count \in {"null", "absent"}
  \/ rec.comment_count \in {"null", "absent"}
  \/ rec.reposts_count \in {"null", "absent"}

\* The input identifiers without a record, and the identifiers whose
\* indexed record is incomplete.
NeedsFix ==
  {u \in Range(hs_urns) : ~IsResolved(u)}
    \cup {u \in TrackUrns : IsResolved(u) /\ Incomplete(hs_by[u])}

\* C16: the list returned holds, for every input identifier that has a
\* record in the index, that record, in the order of the input; an
\* identifier resolved in no round has no entry, and no entry is empty.
C16_InputOrder ==
  hs_pc = "returned" =>
    /\ IdsOf(hs_ret) = SelectSeq(hs_urns, IsResolved)
    /\ \A i \in DOMAIN hs_ret :
         /\ hs_ret[i] # NoRecord /\ hs_ret[i].urn # None
         /\ hs_ret[i] = hs_by[hs_ret[i].urn]
    /\ \A u \in Range(hs_urns) : ~IsResolved(u) => u \notin Range(IdsOf(hs_ret))

\* A call for identifiers 2, 1 that needed a repair round and returned the
\* two records in that order.
C16_Witness ==
  /\ hs_pc = "returned"
  /\ hs_urns = <<2, 1>>
  /\ hs_calls >= 2
  /\ IdsOf(hs_ret) = <<2, 1>>

\* C17: no identifier has two entries in the list returned.
C17_AtMostOnce ==
  hs_pc = "returned" =>
    \A i \in DOMAIN hs_ret, j \in DOMAIN hs_ret :
      hs_ret[i].urn = hs_ret[j].urn => i = j

\* C18: one call makes at most 1 + max_rounds hydration calls, the initial
\* one and max_rounds repair rounds.
C18_RoundBudget ==
  /\ hs_calls <= 1 + max_rounds
  /\ hs_round <= max_rounds

\* A call that returned after the initial hydration and max_rounds repair
\* rounds with something still to fix.
C18_Witness ==
  /\ hs_pc = "returned"
  /\ hs_calls = 1 + max_rounds
  /\ NeedsFix # {}

C19_Complete ==
  /\ \A u \in TrackUrns :
       IsResolved(u) => (track_metrics_any_missing(hs_by[u]) <=> Incomplete(hs_by[u]))
  /\ (hs_pc = "returned" /\ hs_urns # <<>> /\ hs_calls < 1 + max_rounds) => NeedsFix = {}

C19_Rounds ==
  /\ (hs_calls >= 1 /\ hs_calls' = hs_calls + 1) =>
       NeedsFix # {} /\ hs_req' = NeedsFix
  /\ (hs_pc = "round" /\ NeedsFix = {}) =>
       hs_pc' = "returned" /\ hs_calls' = hs_calls

\* C19: the code's completeness test is that of section 4.4 (null or absent
\* metric; 0 is complete); a repair round asks for exactly the input
\* identifiers without a record and the identifiers whose record is
\* incomplete, so never for a complete record; the function returns before
\* its rounds are used up only with nothing left to fix, and with nothing
\* left to fix its next step is to return without a further call.
C19_Completeness == []C19_Complete /\ [][C19_Rounds]_vars

\* A call for identifiers 1, 2 whose one repair round asked for 2 only,
\* the record of 1 having a play count of 0.
C19_Witness ==
  /\ hs_pc = "returned"
  /\ hs_urns = <<1, 2>>
  /\ hs_calls = 2 /\ hs_req = {2}
  /\ hs_by[1].playback_count = "0"
  /\ NeedsFix = {}

\* C20 as stated: the function never raises.
C20_NeverRaises == hs_pc # "raised"

\* C20: the function raises exactly when one of its hydration calls raised;
\* otherwise it returns the records resolved, also with identifiers still
\* unresolved or incomplete after the last round.
C20_RaisesOnlyWithItsRequests ==
  /\ hs_pc = "raised" <=> hs_failed
  /\ hs_pc = "returned" =>
       \A u \in Range(hs_urns) : IsResolved(u) => hs_by[u] \in Range(hs_ret)

\* A call whose request failed in a repair round.
C20_Witness ==
  /\ hs_pc = "raised"
  /\ hs_calls >= 2
  /\ hs_failed

\* =================================================================
\* Properties of the side-effect-free pieces (SpecPure)
\* =================================================================
\* The field of the result that belongs to a key of the profile body.
FieldOf(k) ==
  CASE k = "username" -> "username"
    [] k = "followers_count" -> "followers"
    [] k = "track_count" -> "track_count_total"

\* C21: the profile is fetched a second time exactly when the first fetch
\* lacks the follower count or the track count; after a second fetch that
\* returned, a field the first fetch supplied and the second did not keeps
\* the first value, a field only the second supplied has the second value.
C21_SoftMerge ==
  u_op = "profile" =>
    /\ u_out.fetches = 2 <=>
         (u_in.first["followers_count"] # "v" \/ u_in.first["track_count"] # "v")
    /\ (u_out.fetches = 2 /\ ~u_in.raised) =>
         \A k \in ProfileKeys :
           /\ (u_in.first[k] = "v" /\ u_in.second[k] # "v") => u_out[FieldOf(k)] = "v1"
           /\ (u_in.first[k] # "v" /\ u_in.second[k] = "v") => u_out[FieldOf(k)] = "v2"

\* The identifiers of a column: the texts of its cells without the blanks
\* around them, the empty cells left out.
Identifiers(column) ==
  SelectSeq([i \in DOMAIN column |-> strip(column[i])], LAMBDA t : t # <<>>)

\* The canonical form of an identifier.
Canonical(id) ==
  IF id # <<>> /\ \A i \in DOMAIN id : id[i] = "7" THEN <<Prefix>> \o id ELSE id

\* The place of the first occurrence of x in the sequence q.
FirstAt(q, x) == CHOOSE i \in DOMAIN q : q[i] = x /\ \A j \in 1..(i - 1) : q[j] # x

IsInteger(v) == v.kind \in {"int", "digits"}

\* C25 as stated: the date is returned exactly when the three fields are
\* present and parse as integers.
C25_PresentAndInteger ==
  u_op = "date" =>
    (u_out # "None" <=> \A i \in 1..3 : IsInteger(u_in[i]))

\* C25: the date YYYY-MM-DD, zero-padded, is returned exactly when the three
\* fields parse as integers and none of them is the number 0; in every other
\* case the result is absent.
C25_ReleaseDate ==
  u_op = "date" =>
    IF \A i \in 1..3 : IsInteger(u_in[i]) /\ ~(u_in[i].kind = "int" /\ u_in[i].n = 0)
      THEN /\ Len(u_out) >= 10
           /\ u_out = format_d(u_in[1].n, 4) \o "-" \o format_d(u_in[2].n, 2)
                        \o "-" \o format_d(u_in[3].n, 2)
      ELSE u_out = "None"

\* Year 2024, month 3 and day 12 as numbers.
C25_Witness ==
  /\ u_op = "date"
  /\ u_in = << [kind |-> "int", n |-> 2024], [kind |-> "int", n |-> 3],
               [kind |-> "int", n |-> 12] >>
  /\ u_out = "2024-03-12"

\* The URL holds "artworks-", the alphanumeric run t and "-" from place i.
HasPattern(url, i, t) ==
  /\ t # <<>> /\ \A x \in DOMAIN t : t[x] \in Words
  /\ i + Len(t) + 2 <= Len(url)
  /\ url[i] = "artworks" /\ url[i + 1] = "-"
  /\ SubSeq(url, i + 2, i + 1 + Len(t)) = t
  /\ url[i + Len(t) + 2] = "-"
Patterned(url) ==
  \E i \in DOMAIN url : \E n \in 1..Len(url) :
    i + 1 + n <= Len(url) /\ HasPattern(url, i, SubSeq(url, i + 2, i + 1 + n))

\* The last place of the piece c in the text t, 0 when t has none.
LastPlace(t, c) ==
  IF \E i \in DOMAIN t : t[i] = c
    THEN CHOOSE i \in DOMAIN t : t[i] = c /\ \A j \in (i + 1)..Len(t) : t[j] # c
    ELSE 0

\* The last path segment of the URL.
LastSegment(url) == SubSeq(url, LastPlace(url, "/") + 1, Len(url))

\* The name without its extension: without its last dot and what follows it.
Stem(name) ==
  IF LastPlace(name, ".") = 0 THEN name
  ELSE SubSeq(name, 1, LastPlace(name, ".") - 1)

\* The part of the name before its first dot.
BeforeFirstDot(name, t) ==
  /\ Len(t) <= Len(name) /\ SubSeq(name, 1, Len(t)) = t
  /\ \A x \in DOMAIN t : t[x] # "."
  /\ Len(t) = Len(name) \/ name[Len(t) + 1] = "."

\* C26 as stated: without the pattern the result is the stem of the file
\* name, the last path segment without its extension.
C26_FilenameStem ==
  (u_op = "cover" /\ u_in.present /\ ~Patterned(u_in.url)
     /\ LastSegment(u_in.url) # <<>>) =>
    u_out = Present(Stem(LastSegment(u_in.url)))

\* C26: with the pattern the result is the alphanumeric run of its leftmost
\* occurrence; without it, the part of the last path segment before its
\* first dot, and absent when that segment is empty; absent for an absent or
\* empty URL.
C26_CoverSignature ==
  u_op = "cover" =>
    IF ~u_in.present \/ u_in.url = <<>> THEN u_out = Absent
    ELSE IF Patterned(u_in.url)
      THEN /\ ~u_out.none
           /\ \E i \in DOMAIN u_in.url :
                /\ HasPattern(u_in.url, i, u_out.s)
                /\ \A j \in 1..(i - 1) : \A n \in 1..(Len(u_in.url) - j - 1) :
                     ~HasPattern(u_in.url, j, SubSeq(u_in.url, j + 2, j + 1 + n))
      ELSE IF LastSegment(u_in.url) = <<>> THEN u_out = Absent
      ELSE ~u_out.none /\ BeforeFirstDot(LastSegment(u_in.url), u_out.s)

\* A pattern in the file name, and a file name with two dots.
C26_Witness ==
  /\ u_op = "cover"
  /\ \/ u_in.url = <<"/", "artworks", "-", "ab", "-">> /\ u_out = Present(<<"ab">>)
     \/ u_in.url = <<"ab", ".", "ab", ".", "ab">> /\ u_out = Present(<<"ab">>)

\* The album entries that list the track: the places of the track's urn in
\* the track lists of the albums.
ListedBy(listing, tu) ==
  { p \in (DOMAIN listing) \X (1..MaxAlbums) :
      /\ p[2] \in DOMAIN listing[p[1]].tracks
      /\ tu # "None" /\ listing[p[1]].tracks[p[2]] = tu }

JoinedFields == {"album_urns", "album_titles", "album_artwork_urls", "album_cover_sigs"}

\* C27: a track listed by no album entry has in_album false, album_count 0
\* and the four joined fields absent; a track listed by k >= 1 entries has
\* in_album true and album_count k; no joined field is an empty string.
C27_AlbumMembership ==
  u_op = "join" =>
    LET k == Cardinality(ListedBy(u_in.albums, u_in.tr_urn)) IN
    /\ u_out.album_count = k
    /\ u_out.in_album <=> k >= 1
    /\ u_out.in_album <=> u_out.album_count > 0
    /\ k = 0 => \A f \in JoinedFields : u_out[f] = Absent
    /\ \A f \in JoinedFields : u_out[f] # Present(<<>>)

\* A track that one album lists twice, and a track next to it in no album.
C27_Witness ==
  /\ u_op = "join"
  /\ Len(u_in.albums) = 2
  /\ \/ u_in.tr_urn = "t1" /\ u_in.albums[1].tracks = <<"t1", "t1">>
        /\ u_out.in_album /\ u_out.album_count >= 2
     \/ u_in.tr_urn = "t2" /\ u_in.albums[1].tracks = <<"t1", "t1">>
        /\ ~u_out.in_album /\ u_out.album_urns = Absent

\* =================================================================
\* Properties of one collection attempt and of the end of the run (Spec)
\* =================================================================
\* The step in which the current attempt ends with its rows emitted.
AttemptSucceeds ==
  /\ InPass /\ step # "head"
  /\ outcome[pass][artist_urn] = NoExc
  /\ outcome'[pass][artist_urn] = Ok

\* The hydration of the current attempt left tracks of the listing out.
Unresolved == step = "emit" /\ Len(tracks_h) < Len(urns)

\* C22: an attempt fails only in a step whose upstream fetch failed; once
\* the last fetch of an attempt is answered, the next step emits the rows
\* and the attempt succeeds, whatever the hydration left unresolved.
C22_DataNeverFails ==
  /\ [][AttemptFails => last_get' = "failed"]_vars
  /\ [][(InPass /\ step = "emit") =>
          /\ AttemptSucceeds
          /\ Len(artist_rows') = Len(artist_rows) + 1
          /\ Len(track_rows') = Len(track_rows) + Len(tracks_h)]_vars

\* Every fetch of the attempt is answered and a track is still unresolved.
C22_Witness ==
  /\ InPass /\ Unresolved /\ last_get = "ok" /\ Len(urns) = MaxTracks

\* C23: after the report is written the run goes from the upload to the
\* notification and from the notification to its end, whatever either of
\* them does.
C23_EndNeverFails ==
  /\ [][pc = "upload" => pc' = "notify"]_vars
  /\ [][pc = "notify" => pc' = "done" /\ writes' = writes]_vars
  /\ [](pc \in {"upload", "notify", "done"} => writes >= 1 /\ meta = Summary)

\* The run has ended after a failed upload and a failed notification.
C23_Witness == pc = "done" /\ ~drive_link /\ ~notified /\ writes = 1

\* The rows, the totals and the success set.
Emitted == <<track_rows, album_rows, artist_rows, tracks_total, albums_total,
             success_urns>>

\* C28: a step in which an attempt fails leaves the rows, the totals and the
\* success set as they are, and they change only in the step that ends an
\* attempt with success, after its last request.
C28_FailedAttemptWritesNothing ==
  /\ [][AttemptFails => Emitted' = Emitted]_vars
  /\ [][Emitted' # Emitted => (step = "emit" /\ AttemptSucceeds)]_vars

\* The second artist failed both its attempts, and the rows are those of
\* the first artist.
C28_Witness ==
  /\ pc = "pass2" /\ artists = <<1, 2>> /\ step = "head"
  /\ outcome[1][1] = Ok /\ outcome[2][2].type \in FailTypes
  /\ artist_rows = <<1>> /\ Count(track_rows, 2) = 0 /\ success_urns = {1}
  /\ Len(error_rows) = 1

\* =================================================================
\* Properties of the repair rounds (SpecSafe)
\* =================================================================
\* The step is a bulk lookup of a repair round.
RepairCall == hs_calls >= 1 /\ hs_calls' = hs_calls + 1

\* The records of the index that are incomplete.
IncompleteIndexed == {u \in TrackUrns : IsResolved(u) /\ Incomplete(hs_by[u])}

\* C29: a repair round asks for the input identifiers without a record and
\* the identifiers whose record is incomplete as they are when the round
\* begins, for nothing else, and every record it returns takes the place of
\* the indexed record of its identifier, the other records staying.
C29_RoundRehydratesToFix ==
  [][RepairCall =>
       /\ hs_req' = {u \in Range(hs_urns) : ~IsResolved(u)} \cup IncompleteIndexed
       /\ ~hs_failed' =>
            \A u \in TrackUrns :
              IF \E t \in hs_resp' : t.urn = u
                THEN hs_by'[u] \in hs_resp' /\ hs_by'[u].urn = u
                ELSE hs_by'[u] = hs_by[u]]_vars

\* A repair round asked for an identifier and got its record, now indexed
\* and complete.
C29_Witness ==
  /\ hs_calls >= 2 /\ ~hs_failed
  /\ \E t \in hs_resp : t.urn \in hs_req /\ ~Incomplete(t) /\ hs_by[t.urn] = t

\* C30 as stated: a repair round asks only for input identifiers.
C30_OnlyInputIdentifiers ==
  hs_calls >= 2 => hs_req \subseteq Range(hs_urns)

\* C30: a repair round asks for input identifiers and for the identifiers of
\* the incomplete records the upstream returned unasked, for all of these
\* and for no other identifier.
C30_InputOrReturnedIncomplete ==
  [][RepairCall =>
       /\ hs_req' \subseteq Range(hs_urns) \cup IncompleteIndexed
       /\ hs_req' \ Range(hs_urns) = IncompleteIndexed \ Range(hs_urns)]_vars

\* A repair round asked for an identifier the caller did not pass.
C30_Witness == hs_calls >= 2 /\ hs_req \ Range(hs_urns) # {}

\* The steps of an attempt that begin with an upstream fetch.
FetchSteps == {"user", "user2", "tracks", "hydrate", "albums"}

\* C31 as stated: no failed fetch is survived, so an attempt that is past its
\* first fetch has had no fetch fail.
C31_NothingCaught ==
  (InPass /\ step \notin {"head", "user"}) => last_get = "ok"

\* C31: a fetch that fails in the profile step, the track listing, the
\* hydration or the playlist step ends the attempt, which the controller
\* counts as failed; a failure of the second profile fetch is caught in the
\* collector and the attempt goes on with the track listing.
C31_OnlyRefetchCaught ==
  /\ [][(InPass /\ step \in FetchSteps \ {"user2"} /\ last_get' = "failed") =>
          (AttemptFails /\ step' = "head")]_vars
  /\ [][(InPass /\ step = "user2") =>
          /\ ~AttemptFails
          /\ step' = "tracks" /\ pc' = pc /\ idx' = idx /\ r_idx' = r_idx
          /\ error_rows' = error_rows
          /\ retry_candidates' = retry_candidates]_vars

\* The second profile fetch has failed and the attempt is at its track
\* listing.
C31_Witness ==
  InPass /\ step = "tracks" /\ page_out = <<>> /\ last_get = "failed"

\* =================================================================
\* Properties of the profile step over the two attempts (SpecRefetch)
\* =================================================================
\* The second profile fetches of the artist in the whole run.
Refetches == (IF rf_fetches[1] > 1 THEN 1 ELSE 0) + (IF rf_fetches[2] > 1 THEN 1 ELSE 0)

\* C32 as stated: the profile is fetched a second time at most once per
\* artist in a run.
C32_OncePerArtist == Refetches <= 1

\* C32: the profile is fetched a second time only when the first fetch of
\* the attempt lacks the follower count or the track count, and at most once
\* in an attempt: at most two profile fetches in each of the two passes.
C32_OncePerAttempt ==
  /\ [](rf_fetches[1] <= 2 /\ rf_fetches[2] <= 2)
  /\ [][(rf_pc # "idle" /\ rf_fetches' # rf_fetches /\ rf_fetches[rf_pass] >= 1) =>
          /\ rf_fetches[rf_pass] = 1 /\ rf_pc = "user2"
          /\ rf_user.followers = "None" \/ rf_user.track_count_total = "None"]_vars

\* The artist's profile was fetched a second time in both attempts.
C32_Witness == rf_fetches = <<2, 2>> /\ rf_pc \in {"ok", "failed"}

\* =================================================================
\* Properties of the chunking of one hydrate call (SpecChunks)
\* =================================================================
\* ceil(n / BATCH_SIZE)
ChunksFor(n) == (n + BATCH_SIZE - 1) \div BATCH_SIZE

\* C33: a hydrate call that returns has issued ceil(n/50) requests; the
\* slices requested are consecutive, the first from position 1 and the last
\* up to position n, each of 1 to 50 identifiers, so that every position is
\* in exactly one slice; a call for no identifier issues no request, and a
\* call that a request ends has issued no more than ceil(n/50).
C33_Chunks ==
  /\ Len(ck_reqs) <= ChunksFor(ck_total)
  /\ \A k \in DOMAIN ck_reqs :
       /\ ck_reqs[k][1] = (IF k = 1 THEN 1 ELSE ck_reqs[k - 1][2] + 1)
       /\ ck_reqs[k][1] <= ck_reqs[k][2]
       /\ ck_reqs[k][2] - ck_reqs[k][1] + 1 <= BATCH_SIZE
       /\ ck_reqs[k][2] <= ck_total
  /\ ck_pc = "returned" =>
       /\ Len(ck_reqs) = ChunksFor(ck_total)
       /\ ck_total = 0 => ck_reqs = <<>>
       /\ \A pos \in 1..ck_total :
            Cardinality({k \in DOMAIN ck_reqs :
                           ck_reqs[k][1] <= pos /\ pos <= ck_reqs[k][2]}) = 1

\* A call for 101 identifiers returned after three requests.
C33_Witness ==
  /\ ck_pc = "returned" /\ ck_total = 101
  /\ ck_reqs = << <<1, 50>>, <<51, 100>>, <<101, 101>> >>

\* =================================================================
\* Properties of the report and of the summary (Spec)
\* =================================================================
\* C34 as stated: the report file is written once in a run.
C34_WrittenOnce == writes <= 1

\* C34: the report file is written when every artist is in a terminal state
\* and before the upload and the notification, never while an artist is
\* collected; the one later write is that of its meta sheet, replaced once
\* after an upload that succeeded.
C34_ReportAfterCollection ==
  /\ [](~Reported => writes = 0)
  /\ [](Reported => writes \in {1, 2})
  /\ [](writes = 2 => drive_link)
  /\ [][writes' # writes =>
          \/ /\ pc = "report" /\ writes = 0 /\ writes' = 1 /\ pc' = "upload"
             /\ ~drive_link /\ ~notified
             /\ \A a \in Loaded : ArtistState(a) \in {"succeeded", "failed"}
          \/ /\ pc = "upload" /\ writes = 1 /\ writes' = 2 /\ drive_link'
             /\ ~notified]_vars

\* A run of two artists has ended, the meta sheet replaced after the upload.
C34_Witness == pc = "done" /\ writes = 2 /\ drive_link /\ Len(artists) = 2

\* The artists that have an Error Record.
ErrorArtists == {error_rows[i].artist_urn : i \in DOMAIN error_rows}

\* C35: in the summary of a run artists_failed equals errors_total; every
\* input artist is either in the success set or has an Error Record, never
\* both, and no other identifier is in either.
C35_FailedEqualsErrors ==
  Reported =>
    /\ meta.artists_failed = meta.errors_total
    /\ meta.errors_total = Cardinality(ErrorArtists)
    /\ success_urns \cap ErrorArtists = {}
    /\ success_urns \cup ErrorArtists = Loaded

\* A run of two artists has ended, one succeeded and one failed.
C35_Witness ==
  /\ pc = "done" /\ Len(artists) = 2
  /\ meta.artists_failed = 1 /\ meta.errors_total = 1 /\ meta.artists_ok = 1
  /\ Cardinality(success_urns) = 1 /\ Cardinality(ErrorArtists) = 1

\* =================================================================
\* Properties of the script with one pass (SpecSingle)
\* =================================================================
\* The step in which the current attempt of the one-pass script fails.
SpFails == sp_pc = "loop" /\ sp_step \notin {"head", "emit"} /\ sp_step' = "head"

\* C36: the one-pass script attempts the artists once each, in input order;
\* a failing attempt appends one Error Record for its artist (step "http"
\* with a status, or step "exception" without one), counts the artist as
\* failed and goes on with the next artist; in the summary artists_ok +
\* artists_failed = artists_in and errors_total = artists_failed.
C36_SinglePass ==
  /\ [](IsPrefix(sp_tried, sp_artists))
  /\ [](sp_fail = Len(sp_errors) /\ \A a \in Range(sp_artists) :
          Cardinality({i \in DOMAIN sp_errors : sp_errors[i].artist_urn = a}) <= 1)
  /\ [](\A i \in DOMAIN sp_errors :
          \/ sp_errors[i].step = "http" /\ sp_errors[i].http_status \in {404, 503}
          \/ sp_errors[i].step = "exception" /\ sp_errors[i].http_status = None)
  /\ [](sp_pc = "report" =>
          /\ sp_tried = sp_artists
          /\ sp_meta.artists_ok + sp_meta.artists_failed = sp_meta.artists_in
          /\ sp_meta.errors_total = sp_meta.artists_failed)
  /\ [][SpFails =>
          /\ Len(sp_errors') = Len(sp_errors) + 1
          /\ sp_errors'[Len(sp_errors')].artist_urn = sp_artists[sp_idx]
          /\ sp_fail' = sp_fail + 1 /\ sp_ok' = sp_ok
          /\ sp_idx' = sp_idx + 1 /\ sp_tried' = sp_tried]_vars

\* A run over two artists with the second failed on a 404.
C36_Witness ==
  /\ sp_pc = "report" /\ sp_artists = <<1, 2>> /\ sp_tried = <<1, 2>>
  /\ sp_errors = << [artist_urn |-> 2, step |-> "http", http_status |-> 404] >>
  /\ sp_meta.artists_ok = 1 /\ sp_meta.artists_failed = 1

\* =================================================================
\* Properties of the album filter (SpecPure)
\* =================================================================
\* The field matches "album" when case is ignored.
MatchesAlbum(f) ==
  /\ ~f.none /\ Len(f.s) = 5
  /\ f.s[1] \in {"a", "A"} /\ f.s[2] = "l" /\ f.s[3] = "b"
  /\ f.s[4] = "u" /\ f.s[5] = "m"

\* The field holds a string that is not empty.
Filled(f) == ~f.none /\ f.s # <<>>

\* The urns of the first n listings whose places are in K, in the order of
\* the input.
RECURSIVE UrnsAt(_, _, _)
UrnsAt(listing, n, K) ==
  IF n = 0 THEN <<>>
  ELSE UrnsAt(listing, n - 1, K) \o (IF n \in K THEN <<listing[n].urn>> ELSE <<>>)

\* The urns of the listings that satisfy Flag, in the order of the input.
Flagged(listing, Flag(_)) ==
  UrnsAt(listing, Len(listing), {i \in DOMAIN listing : Flag(listing[i])})

EitherField(pl) == MatchesAlbum(pl.set_type) \/ MatchesAlbum(pl.playlist_type)
FirstFilled(pl) ==
  \/ MatchesAlbum(pl.set_type)
  \/ ~Filled(pl.set_type) /\ MatchesAlbum(pl.playlist_type)

\* C37 as stated: the albums are the listings of which the set-type or the
\* playlist-type field matches "album" when case is ignored.
C37_EitherFieldMatches ==
  u_op = "filter" => u_out.album_rows = Flagged(u_in.playlists, EitherField)

\* C37: the albums are the listings of which the set-type field matches
\* "album" when case is ignored, or, that field being absent or empty, the
\* playlist-type field does; they are kept in order, and every other listing
\* gives no album row and no album membership.
C37_FirstFilledFieldMatches ==
  u_op = "filter" =>
    /\ u_out.album_rows = Flagged(u_in.playlists, FirstFilled)
    /\ u_out.album_map = Flagged(u_in.playlists, FirstFilled)
    /\ \A i \in DOMAIN u_out.albums :
         u_out.albums[i] = u_in.playlists[u_out.album_rows[i]]

\* One listing kept on its playlist-type with the capital letter and the
\* set-type empty, beside one dropped although its playlist-type is "album".
C37_Witness ==
  /\ u_op = "filter" /\ Len(u_in.playlists) = 2
  /\ u_in.playlists[1].set_type = Present(<<>>)
  /\ u_in.playlists[1].playlist_type = Present(<<"A", "l", "b", "u", "m">>)
  /\ u_in.playlists[2].set_type = Present(<<"e", "p">>)
  /\ u_in.playlists[2].playlist_type = Present(<<"a", "l", "b", "u", "m">>)
  /\ u_out.album_rows = <<1>>

====
